---------------------------- MODULE Spec2Model ----------------------------
(***************************************************************************)
(* A model of nx9-dns-server: the wire codec, the resolver, the answer     *)
(* cache and the two transports.  The repository holds two builds of the   *)
(* same server: the library crate (src/src/lib.rs with cache.rs, db.rs,    *)
(* dns.rs, handlers.rs, utils.rs) and the self-contained binary            *)
(* (src/src/main.rs).  The variable `build` says which one runs; the       *)
(* definitions of the binary carry the prefix main_.                       *)
(*                                                                         *)
(* Packets are sequences of octets (0..255) and Rust strings are sequences *)
(* of character codes, so that parsing and encoding are computed, not      *)
(* assumed.  Rust indices are 0-based: B(q, i) is q[i].                    *)
(***************************************************************************)
EXTENDS Integers, Sequences, FiniteSets, TLC

(***************************************************************************)
(* Octets, bit operations, Option/Result values                            *)
(***************************************************************************)
B(q, i) == q[i + 1]

\* q[from..to] of Rust (to exclusive), for 0 <= from <= to <= Len(q)
Slice(q, from, to) == SubSeq(q, from + 1, to)

RECURSIVE BitAnd(_, _)
BitAnd(x, y) ==
    IF x = 0 \/ y = 0 THEN 0
    ELSE (x % 2) * (y % 2) + 2 * BitAnd(x \div 2, y \div 2)

BitOr(x, y) == x + y - BitAnd(x, y)

BE16(n) == << (n \div 256) % 256, n % 256 >>

BE32(n) == << (n \div 16777216) % 256, (n \div 65536) % 256, (n \div 256) % 256, n % 256 >>

U16At(q, i) == B(q, i) * 256 + B(q, i + 1)

Some(v) == [tag |-> "Some", val |-> v]

None == [tag |-> "None", val |-> << >>]

Err == [tag |-> "Err", val |-> << >>]

Panic == [tag |-> "Panic", val |-> << >>]

(***************************************************************************)
(* Rust string operations on sequences of character codes                  *)
(***************************************************************************)
Dot == 46

Space == 32

Quote == 34

\* removes one trailing dot
trim_one_dot(s) ==
    IF Len(s) > 0 /\ s[Len(s)] = 46 THEN SubSeq(s, 1, Len(s) - 1) ELSE s

\* str::trim_end_matches('.'): removes every trailing dot
RECURSIVE trim_end_dots(_)
trim_end_dots(s) ==
    IF Len(s) > 0 /\ s[Len(s)] = Dot THEN trim_end_dots(SubSeq(s, 1, Len(s) - 1)) ELSE s

\* the position of the k-th separator of s; 0 before the first and Len(s) + 1
\* after the last
SepPos(s, sep, k) ==
    LET seps == {i \in 1..Len(s) : s[i] = sep} IN
    IF k = 0 THEN 0
    ELSE IF k > Cardinality(seps) THEN Len(s) + 1
    ELSE CHOOSE p \in seps : Cardinality({j \in seps : j < p}) = k - 1

\* str::split(sep): the pieces between separators, empty pieces kept
Split(s, sep) ==
    [k \in 1..(Cardinality({i \in 1..Len(s) : s[i] = sep}) + 1) |->
        SubSeq(s, SepPos(s, sep, k - 1) + 1, SepPos(s, sep, k) - 1)]

\* str::split_whitespace(): the non-empty pieces between spaces
split_whitespace(s) == SelectSeq(Split(s, Space), LAMBDA p : Len(p) > 0)

RECURSIVE Join(_, _)
Join(parts, sep) ==
    IF Len(parts) = 0 THEN << >>
    ELSE IF Len(parts) = 1 THEN parts[1]
    ELSE parts[1] \o << sep >> \o Join(Tail(parts), sep)

RECURSIVE Concat(_)
Concat(parts) == IF Len(parts) = 0 THEN << >> ELSE parts[1] \o Concat(Tail(parts))

ends_with(s, suf) ==
    Len(suf) <= Len(s) /\ SubSeq(s, Len(s) - Len(suf) + 1, Len(s)) = suf

IsDigit(c) == c >= 48 /\ c <= 57

RECURSIVE DigitsValue(_, _)
DigitsValue(s, acc) ==
    IF Len(s) = 0 THEN acc ELSE DigitsValue(Tail(s), acc * 10 + (Head(s) - 48))

\* leading zeros removed
RECURSIVE StripZeros(_)
StripZeros(s) == IF Len(s) > 1 /\ s[1] = 48 THEN StripZeros(Tail(s)) ELSE s

\* str::parse::<u8>() and ::<u16>(): an optional '+', then one or more digits,
\* value <= max (max is 255 or 65535)
ParseUint(s, max) ==
    LET d == IF Len(s) > 0 /\ s[1] = 43 THEN Tail(s) ELSE s IN
    IF Len(d) = 0 \/ (\E i \in 1..Len(d) : ~IsDigit(d[i])) THEN None
    ELSE IF Len(StripZeros(d)) > 5 THEN None
    ELSE IF DigitsValue(d, 0) > max THEN None
    ELSE Some(DigitsValue(d, 0))

\* one step of str::parse::<u32>() on the four big-endian octets of the value
\* so far: times ten plus the digit d; << >> when the value leaves 32 bits
U32Step(o, d) ==
    LET v4 == o[4] * 10 + d
        v3 == o[3] * 10 + v4 \div 256
        v2 == o[2] * 10 + v3 \div 256
        v1 == o[1] * 10 + v2 \div 256
    IN  IF v1 > 255 THEN << >> ELSE << v1, v2 % 256, v3 % 256, v4 % 256 >>

RECURSIVE U32Digits(_, _)
U32Digits(s, o) ==
    IF Len(s) = 0 \/ Len(o) = 0 THEN o ELSE U32Digits(Tail(s), U32Step(o, Head(s) - 48))

\* str::parse::<u32>(), the value as its to_be_bytes()
ParseU32(s) ==
    LET d == IF Len(s) > 0 /\ s[1] = 43 THEN Tail(s) ELSE s IN
    IF Len(d) = 0 \/ (\E i \in 1..Len(d) : ~IsDigit(d[i])) THEN None
    ELSE IF Len(U32Digits(d, << 0, 0, 0, 0 >>)) = 0 THEN None
    ELSE Some(U32Digits(d, << 0, 0, 0, 0 >>))

\* first index (0-based) of a zero octet in q[from..], as Iterator::position
RECURSIVE PositionZero(_, _)
PositionZero(q, i) ==
    IF i >= Len(q) THEN -1 ELSE IF B(q, i) = 0 THEN i ELSE PositionZero(q, i + 1)

(***************************************************************************)
(* str::from_utf8 on a label.  One- and two-octet forms are exact; the     *)
(* three- and four-octet forms are accepted by lead and continuation       *)
(* octets only (overlong forms and surrogates are not told apart).         *)
(***************************************************************************)
IsCont(c) == c >= 128 /\ c <= 191

RECURSIVE from_utf8_ok(_)
from_utf8_ok(s) ==
    IF Len(s) = 0 THEN TRUE
    ELSE LET c == s[1] IN
         IF c < 128 THEN from_utf8_ok(Tail(s))
         ELSE IF c >= 194 /\ c <= 223
              THEN Len(s) >= 2 /\ IsCont(s[2]) /\ from_utf8_ok(SubSeq(s, 3, Len(s)))
         ELSE IF c >= 224 /\ c <= 239
              THEN Len(s) >= 3 /\ IsCont(s[2]) /\ IsCont(s[3])
                   /\ from_utf8_ok(SubSeq(s, 4, Len(s)))
         ELSE IF c >= 240 /\ c <= 244
              THEN Len(s) >= 4 /\ IsCont(s[2]) /\ IsCont(s[3]) /\ IsCont(s[4])
                   /\ from_utf8_ok(SubSeq(s, 5, Len(s)))
         ELSE FALSE

(***************************************************************************)
(* utils.rs: question parsing                                              *)
(***************************************************************************)
\* the QNAME loop of extract_domain, from position pos with the name so far
RECURSIVE extract_domain_loop(_, _, _)
extract_domain_loop(query, pos, domain) ==
    IF pos >= Len(query) THEN None
    ELSE LET len == B(query, pos) IN
         IF len = 0 THEN Some([domain |-> domain, pos |-> pos])
         ELSE IF pos + 1 + len > Len(query) THEN None
         ELSE LET label == Slice(query, pos + 1, pos + 1 + len) IN
              IF ~from_utf8_ok(label) THEN None
              ELSE extract_domain_loop(query, pos + 1 + len,
                       IF Len(domain) > 0 THEN domain \o << Dot >> \o label ELSE label)

extract_domain(query) ==
    IF Len(query) < 12 THEN None
    ELSE LET r == extract_domain_loop(query, 12, << >>) IN
         IF r.tag # "Some" THEN r
         ELSE IF r.val.pos + 4 > Len(query) THEN None
         ELSE Some(r.val.domain)

\* the "skip QNAME" loop shared by extract_query_type and the OPT scanners:
\* the position after the terminating zero, or -1 when the packet ends first
RECURSIVE skip_qname(_, _)
skip_qname(query, pos) ==
    IF pos >= Len(query) THEN -1
    ELSE IF B(query, pos) = 0 THEN pos + 1
    ELSE skip_qname(query, pos + B(query, pos) + 1)

extract_query_type(query) ==
    IF Len(query) < 12 THEN None
    ELSE LET pos == skip_qname(query, 12) IN
         IF pos < 0 THEN None
         ELSE IF pos + 1 < Len(query) THEN Some(U16At(query, pos))
         ELSE None

(***************************************************************************)
(* utils.rs: name encoding                                                 *)
(***************************************************************************)
RECURSIVE encode_labels(_)
encode_labels(parts) ==
    IF Len(parts) = 0 THEN << >>
    ELSE IF Len(parts[1]) > 63 THEN encode_labels(Tail(parts))
    ELSE << Len(parts[1]) >> \o parts[1] \o encode_labels(Tail(parts))

encode_dns_name(name) == encode_labels(Split(trim_end_dots(name), Dot)) \o << 0 >>

(***************************************************************************)
(* utils.rs: OPT / EDNS detection.  The three scanners share one walk and  *)
(* differ in how many octets past the OPT owner they require (need) and in *)
(* what they read there.                                                   *)
(***************************************************************************)
\* the loop over the answer and authority records; the position after them or -1
RECURSIVE skip_records(_, _, _)
skip_records(query, pos, n) ==
    IF n = 0 THEN pos
    ELSE IF pos >= Len(query) THEN -1
    ELSE LET p == IF BitAnd(B(query, pos), 192) = 192 THEN pos + 2
                  ELSE skip_qname(query, pos) IN
         IF p < 0 THEN -1
         ELSE IF p + 10 > Len(query) THEN -1
         ELSE skip_records(query, p + 10 + U16At(query, p + 8), n - 1)

\* the loop over the additional records; the position of the OPT record or -1
RECURSIVE scan_additional(_, _, _, _)
scan_additional(query, pos, n, need) ==
    IF n = 0 THEN -1
    ELSE IF pos >= Len(query) THEN -1
    ELSE IF B(query, pos) = 0 /\ pos + need < Len(query)
            /\ B(query, pos + 1) = 0 /\ B(query, pos + 2) = 41 THEN pos
    ELSE IF pos + 10 >= Len(query) THEN -1
    ELSE scan_additional(query, pos + 10 + U16At(query, pos + 8), n - 1, need)

\* the additional section, entered at p when the sections before it were walked
additional_from(query, p, need) ==
    IF p < 0 THEN -1 ELSE scan_additional(query, p, U16At(query, 10), need)

\* the answer and authority sections, entered after the question whose QNAME
\* ends before q
records_from(query, q, need) ==
    IF q < 0 THEN -1
    ELSE additional_from(query,
             skip_records(query, q + 4, (U16At(query, 6) + U16At(query, 8)) % 65536),
             need)

find_opt(query, need) ==
    IF Len(query) < 12 THEN -1
    ELSE IF U16At(query, 10) = 0 THEN -1
    ELSE records_from(query, skip_qname(query, 12), need)

has_opt_record(query) == find_opt(query, 2) >= 0

\* the CLASS field of the OPT record found at pos
payload_size_at(query, pos) == IF pos < 0 THEN None ELSE Some(U16At(query, pos + 3))

extract_edns_payload_size(query) == payload_size_at(query, find_opt(query, 5))

\* (query[pos + 6] & 0x80) != 0 for the OPT record found at pos
do_bit_at(query, pos) == pos >= 0 /\ BitAnd(B(query, pos + 6), 128) # 0

extract_do_bit(query) == do_bit_at(query, find_opt(query, 7))


(***************************************************************************)
(* hex::decode and base64 STANDARD decode (padded, canonical)              *)
(***************************************************************************)
HexVal(c) ==
    IF c >= 48 /\ c <= 57 THEN c - 48
    ELSE IF c >= 65 /\ c <= 70 THEN c - 55
    ELSE IF c >= 97 /\ c <= 102 THEN c - 87
    ELSE -1

hex_decode(s) ==
    IF Len(s) % 2 # 0 \/ (\E i \in 1..Len(s) : HexVal(s[i]) < 0) THEN None
    ELSE Some([i \in 1..(Len(s) \div 2) |-> HexVal(s[2 * i - 1]) * 16 + HexVal(s[2 * i])])

B64Val(c) ==
    IF c >= 65 /\ c <= 90 THEN c - 65
    ELSE IF c >= 97 /\ c <= 122 THEN c - 71
    ELSE IF c >= 48 /\ c <= 57 THEN c + 4
    ELSE IF c = 43 THEN 62
    ELSE IF c = 47 THEN 63
    ELSE -1

\* the octets of one group of four characters, pad of them being '='
B64Group(g, pad) ==
    LET v == [i \in 1..4 |-> IF i > 4 - pad THEN 0 ELSE B64Val(g[i])]
        n == ((v[1] * 64 + v[2]) * 64 + v[3]) * 64 + v[4]
        all == << n \div 65536, (n \div 256) % 256, n % 256 >>
    IN  SubSeq(all, 1, 3 - pad)

RECURSIVE B64Groups(_)
B64Groups(s) ==
    IF Len(s) = 0 THEN << >>
    ELSE LET g == SubSeq(s, 1, 4)
             pad == IF g[4] = 61 THEN (IF g[3] = 61 THEN 2 ELSE 1) ELSE 0
         IN  B64Group(g, pad) \o B64Groups(SubSeq(s, 5, Len(s)))

base64_decode(s) ==
    LET n == Len(s)
        pad == IF n >= 1 /\ s[n] = 61 THEN (IF n >= 2 /\ s[n - 1] = 61 THEN 2 ELSE 1) ELSE 0
    IN  IF n % 4 # 0 THEN None
        ELSE IF \E i \in 1..(n - pad) : B64Val(s[i]) < 0 THEN None
        ELSE IF pad = 1 /\ B64Val(s[n - 1]) % 4 # 0 THEN None
        ELSE IF pad = 2 /\ B64Val(s[n - 2]) % 16 # 0 THEN None
        ELSE Some(B64Groups(s))

Ok(v) == [tag |-> "Ok", val |-> v]

unwrap_or(opt, d) == IF opt.tag = "Some" THEN opt.val ELSE d

(***************************************************************************)
(* dns.rs: blocks shared by the response builders                          *)
(***************************************************************************)
\* "Copy question section from query": query[12..qname_end + 4] with
\* qname_end = position of the first zero octet of query[12..] + 13
question_copy(query) ==
    LET z == PositionZero(query, 12) IN
    IF z < 0 THEN Err
    ELSE IF z + 1 + 4 > Len(query) THEN Panic
    ELSE Ok(Slice(query, 12, z + 1 + 4))

\* "Add EDNS record if present in query": the OPT record appended to a response
opt_record(query) ==
    << 0 >> \o << 0, 41 >> \o BE16(unwrap_or(extract_edns_payload_size(query), 4096))
        \o << 0 >> \o << 0 >>
        \o (IF extract_do_bit(query) THEN << 128, 0 >> ELSE << 0, 0 >>)
        \o << 0, 0 >>

edns_tail(query) == IF has_opt_record(query) THEN opt_record(query) ELSE << >>

\* a header as fixed_header builds it, but with RCODE 2
fixed_header_servfail(query, ancount) ==
    Slice(query, 0, 2) \o << 132, 2 >> \o Slice(query, 4, 6) \o BE16(ancount)
        \o << 0, 0 >> \o << 0, IF has_opt_record(query) THEN 1 ELSE 0 >>

\* the header of build_ds/dnskey/soa/ns/generic: flags 0x84 0x00, NSCOUNT 0,
\* ARCOUNT 1 iff the query has OPT
fixed_header(query, ancount) ==
    Slice(query, 0, 2) \o << 132, 0 >> \o Slice(query, 4, 6) \o BE16(ancount)
        \o << 0, 0 >> \o << 0, IF has_opt_record(query) THEN 1 ELSE 0 >>

\* owner pointer, TYPE, CLASS IN, TTL of an answer record (ttl as u32; the TTLs
\* of the model are below 2^31)
rr_head(type, ttl) == << 192, 12 >> \o BE16(type) \o << 0, 1 >> \o BE32(ttl)

(***************************************************************************)
(* dns.rs: build_dns_response (A answers)                                  *)
(***************************************************************************)
\* ip.split('.').filter_map(|s| s.parse::<u8>().ok())
ipv4_octets(ip) ==
    LET parsed == [i \in 1..Len(Split(ip, Dot)) |-> ParseUint(Split(ip, Dot)[i], 255)]
        kept == SelectSeq(parsed, LAMBDA r : r.tag = "Some")
    IN  [i \in 1..Len(kept) |-> kept[i].val]

build_dns_response(query, ip, ttl, config) ==
    LET flags1 == BitOr(128, BitAnd(B(query, 2), 1))
        head == Slice(query, 0, 2)
                \o << IF config.authoritative THEN BitOr(flags1, 4) ELSE flags1, 128 >>
                \o Slice(query, 4, 6) \o << 0, 1 >>
                \o << 0, IF config.authoritative THEN 2 ELSE 0 >> \o << 0, 0 >>
        qs == question_copy(query)
        octets == ipv4_octets(ip)
    IN  IF qs.tag # "Ok" THEN qs
        ELSE IF Len(octets) # 4 THEN Err
        ELSE Ok(head \o qs.val \o rr_head(1, ttl) \o << 0, 4 >> \o octets
                \o edns_tail(query))

(***************************************************************************)
(* dns.rs: build_ds_response, build_dnskey_response                        *)
(***************************************************************************)
build_ds_response(query, ds_record, ttl, config) ==
    LET qs == question_copy(query)
        parts == split_whitespace(ds_record)
    IN  IF qs.tag # "Ok" THEN qs
        ELSE IF Len(parts) < 7 THEN Err
        ELSE LET key_tag == ParseUint(parts[4], 65535)
                 algorithm == ParseUint(parts[5], 255)
                 digest_type == ParseUint(parts[6], 255)
                 digest == hex_decode(parts[7])
             IN  IF key_tag.tag # "Some" \/ algorithm.tag # "Some"
                    \/ digest_type.tag # "Some" \/ digest.tag # "Some" THEN Err
                 ELSE Ok(fixed_header(query, 1) \o qs.val \o rr_head(43, ttl)
                         \o BE16((4 + Len(digest.val)) % 65536)
                         \o BE16(key_tag.val) \o << algorithm.val, digest_type.val >>
                         \o digest.val \o edns_tail(query))

build_dnskey_response(query, dnskey_record, ttl, config) ==
    LET qs == question_copy(query)
        parts == split_whitespace(dnskey_record)
    IN  IF qs.tag # "Ok" THEN qs
        ELSE IF Len(parts) < 7 THEN Err
        ELSE LET flags == ParseUint(parts[4], 65535)
                 protocol == ParseUint(parts[5], 255)
                 algorithm == ParseUint(parts[6], 255)
                 key_data == base64_decode(Concat(SubSeq(parts, 7, Len(parts))))
             IN  IF flags.tag # "Some" \/ protocol.tag # "Some"
                    \/ algorithm.tag # "Some" \/ key_data.tag # "Some" THEN Err
                 ELSE Ok(fixed_header(query, 1) \o qs.val \o rr_head(48, ttl)
                         \o BE16((4 + Len(key_data.val)) % 65536)
                         \o BE16(flags.val) \o << protocol.val, algorithm.val >>
                         \o key_data.val \o edns_tail(query))


(***************************************************************************)
(* dns.rs: build_soa_response, build_ns_response,                          *)
(* build_generic_record_response                                           *)
(***************************************************************************)
build_soa_response(query, soa_value, ttl, domain, config) ==
    LET qs == question_copy(query)
        parts == split_whitespace(soa_value)
    IN  IF qs.tag # "Ok" THEN qs
        ELSE IF Len(parts) < 7 THEN Err
        ELSE LET nums == [i \in 1..5 |-> ParseU32(parts[i + 2])]
                 mname_wire == encode_dns_name(parts[1])
                 rname_wire == encode_dns_name(parts[2])
             IN  IF \E i \in 1..5 : nums[i].tag # "Some" THEN Err
                 ELSE Ok(fixed_header(query, 1) \o qs.val \o rr_head(6, ttl)
                         \o BE16((Len(mname_wire) + Len(rname_wire) + 20) % 65536)
                         \o mname_wire \o rname_wire
                         \o nums[1].val \o nums[2].val \o nums[3].val
                         \o nums[4].val \o nums[5].val
                         \o edns_tail(query))

\* an answer section that holds the first NS record only
ns_answers_first_only(ns_records) ==
    IF Len(ns_records) = 0 THEN << >>
    ELSE LET ns_data == encode_dns_name(ns_records[1].value) IN
         rr_head(2, ns_records[1].ttl) \o BE16(Len(ns_data) % 65536) \o ns_data

\* one answer record per NS record: pointer, TYPE NS, CLASS IN, its TTL, the name
RECURSIVE ns_answers(_)
ns_answers(ns_records) ==
    IF Len(ns_records) = 0 THEN << >>
    ELSE LET ns_data == encode_dns_name(ns_records[1].value) IN
         rr_head(2, ns_records[1].ttl) \o BE16(Len(ns_data) % 65536) \o ns_data
             \o ns_answers(Tail(ns_records))

build_ns_response(query, records, ttl, domain, config) ==
    LET ns_records == SelectSeq(records, LAMBDA r : r.record_type = "NS")
        qs == question_copy(query)
    IN  IF qs.tag # "Ok" THEN qs
        ELSE Ok(fixed_header(query, Len(ns_records) % 65536) \o qs.val
                \o ns_answers(ns_records) \o edns_tail(query))

\* str::trim_matches('"'): every leading and trailing double quote removed
RECURSIVE trim_quotes(_)
trim_quotes(s) ==
    IF Len(s) > 0 /\ s[1] = Quote THEN trim_quotes(Tail(s))
    ELSE IF Len(s) > 0 /\ s[Len(s)] = Quote THEN trim_quotes(SubSeq(s, 1, Len(s) - 1))
    ELSE s

\* RDLENGTH and RDATA of an MX record "preference exchange"
mx_rdata(parts) ==
    IF Len(parts) < 2 THEN Err
    ELSE LET preference == ParseUint(parts[1], 65535)
             exchange_wire == encode_dns_name(parts[2])
         IN  IF preference.tag # "Some" THEN Err
             ELSE Ok(BE16((2 + Len(exchange_wire)) % 65536)
                     \o BE16(preference.val) \o exchange_wire)

\* RDLENGTH and RDATA of a TXT record: one character-string
txt_rdata(txt_value) ==
    Ok(BE16((Len(txt_value) + 1) % 65536) \o << Len(txt_value) % 256 >> \o txt_value)

\* RDLENGTH and RDATA of a CNAME or PTR record: the encoded target
name_rdata(target_wire) == Ok(BE16(Len(target_wire) % 65536) \o target_wire)

\* the match on the query type: the record-specific part of the answer
generic_rdata(value, query_type) ==
    IF query_type = 15 THEN mx_rdata(split_whitespace(value))
    ELSE IF query_type = 16 THEN txt_rdata(trim_quotes(value))
    ELSE IF query_type = 5 \/ query_type = 12 THEN name_rdata(encode_dns_name(value))
    ELSE Err

\* header, question (qs), answer record (rdata) and EDNS record in response order
generic_response(query, ttl, query_type, qs, rdata) ==
    IF qs.tag # "Ok" THEN qs
    ELSE IF rdata.tag # "Ok" THEN rdata
    ELSE Ok(fixed_header(query, 1) \o qs.val \o rr_head(query_type, ttl) \o rdata.val
            \o edns_tail(query))

build_generic_record_response(query, value, ttl, domain, query_type, config) ==
    generic_response(query, ttl, query_type, question_copy(query),
                     generic_rdata(value, query_type))

(***************************************************************************)
(* dns.rs: build_not_implemented_response                                  *)
(***************************************************************************)
build_not_implemented_response(query, authoritative) ==
    IF Len(query) < 12 THEN None
    ELSE LET opcode == BitAnd(B(query, 2), 120)
             rd == BitAnd(B(query, 2), 1)
             flags1 == BitOr(BitOr(128, opcode), rd)
             head == Slice(query, 0, 2)
                     \o << IF authoritative THEN BitOr(flags1, 4) ELSE flags1, 132 >>
                     \o Slice(query, 4, 6) \o << 0, 0, 0, 0, 0, 0 >>
             pos == skip_qname(query, 12)
         IN  IF pos < 0 THEN None
             ELSE IF pos + 4 > Len(query) THEN None
             ELSE Some(head \o Slice(query, 12, pos + 4) \o edns_tail(query))

(***************************************************************************)
(* db.rs: the record store, the zone index                                 *)
(***************************************************************************)
\* SELECT value, ttl, record_type FROM dns_records WHERE domain = ?; the table
\* is WITHOUT ROWID, so rows come in primary-key order, as db holds them.
\* A backend error yields the empty list.
lookup_records(db, domain) ==
    IF db.broken THEN << >>
    ELSE SelectSeq(db.rows, LAMBDA r : r.domain = domain)

\* the distinct values of f over a sequence, in first-occurrence order
RECURSIVE DistinctDomains(_, _)
DistinctDomains(rows, seen) ==
    IF Len(rows) = 0 THEN << >>
    ELSE IF rows[1].domain \in seen THEN DistinctDomains(Tail(rows), seen)
    ELSE << rows[1].domain >> \o DistinctDomains(Tail(rows), seen \cup {rows[1].domain})

zone_of(db, domain) ==
    LET ns == SelectSeq(db.rows, LAMBDA r : r.domain = domain /\ r.record_type = "NS")
        soa == SelectSeq(db.rows, LAMBDA r : r.domain = domain /\ r.record_type = "SOA")
    IN  [name |-> domain,
         ns_records |-> [i \in 1..Len(ns) |-> ns[i].value],
         soa_record |-> IF Len(soa) > 0 THEN Some(soa[1].value) ELSE None]

\* the SOA text of the zone synthesised from the configuration:
\* "{ns1} hostmaster.{default_domain} 1 10800 3600 604800 86400"
DefaultSoaTail == << 32, 49, 32, 49, 48, 56, 48, 48, 32, 51, 54, 48, 48, 32,
                     54, 48, 52, 56, 48, 48, 32, 56, 54, 52, 48, 48 >>

Hostmaster == << 104, 111, 115, 116, 109, 97, 115, 116, 101, 114, 46 >>

Ns1ExampleCom == << 110, 115, 49, 46, 101, 120, 97, 109, 112, 108, 101, 46, 99, 111, 109, 46 >>

get_authoritative_zones(db, config) ==
    LET names == IF db.broken THEN << >>
                 ELSE DistinctDomains(
                          SelectSeq(db.rows, LAMBDA r : r.record_type = "NS"), {})
        zones == [i \in 1..Len(names) |-> zone_of(db, names[i])]
    IN  IF Len(zones) > 0 THEN zones
        ELSE << [name |-> config.default_domain,
                 ns_records |-> config.ns_records,
                 soa_record |-> Some(
                     (IF Len(config.ns_records) > 0 THEN config.ns_records[1]
                      ELSE Ns1ExampleCom)
                     \o << Space >> \o Hostmaster \o config.default_domain
                     \o DefaultSoaTail)] >>

\* the first zone of the list with the given property, as Iterator::find
FirstZone(zones, P(_)) ==
    LET hits == SelectSeq(zones, P) IN
    IF Len(hits) > 0 THEN Some(hits[1]) ELSE None

\* no loop over the candidate parents: only the scan of the zone list is left
exact_parent_skipped(domain_parts, i, zones) == None

RECURSIVE exact_parent(_, _, _)
exact_parent(domain_parts, i, zones) ==
    IF i > Len(domain_parts) THEN None
    ELSE LET candidate == Join(SubSeq(domain_parts, i, Len(domain_parts)), Dot)
             hit == FirstZone(zones, LAMBDA z : z.name = candidate)
         IN  IF hit.tag = "Some" THEN hit ELSE exact_parent(domain_parts, i + 1, zones)

find_closest_parent_zone(domain, zones) ==
    LET exact == exact_parent(Split(domain, Dot), 1, zones) IN
    IF exact.tag = "Some" THEN exact
    ELSE FirstZone(zones, LAMBDA z : ends_with(domain, << Dot >> \o z.name))


(***************************************************************************)
(* dns.rs: build_nxdomain_response.  The builder reads the configuration   *)
(* from the environment and the zones from the store; both are passed in.  *)
(***************************************************************************)
DEFAULT_TTL == 600

\* an authority record owned by the zone name: name, TYPE, CLASS IN, TTL 600
zone_rr_head(zone_name, type) ==
    zone_name \o BE16(type) \o << 0, 1 >> \o BE32(DEFAULT_TTL)

RECURSIVE zone_ns_records(_, _)
zone_ns_records(zone_name, ns_records) ==
    IF Len(ns_records) = 0 THEN << >>
    ELSE LET ns_data == encode_dns_name(ns_records[1]) IN
         zone_rr_head(zone_name, 2) \o BE16(Len(ns_data) % 65536) \o ns_data
             \o zone_ns_records(zone_name, Tail(ns_records))

SoaDefaults == BE32(1) \o BE32(10800) \o BE32(3600) \o BE32(604800) \o BE32(86400)

\* an authority section without records
nxdomain_no_authority(zone) == << >>

nxdomain_authority(zone) ==
    LET zone_name == encode_dns_name(zone.name)
        parts == IF zone.soa_record.tag = "Some"
                 THEN split_whitespace(zone.soa_record.val) ELSE << >>
        rdata == IF Len(parts) >= 7
                 THEN LET mname_wire == encode_dns_name(parts[1])
                          rname_wire == encode_dns_name(parts[2])
                      IN  BE16((Len(mname_wire) + Len(rname_wire) + 20) % 65536)
                              \o mname_wire \o rname_wire \o SoaDefaults
                 ELSE << >>
    IN  zone_rr_head(zone_name, 6) \o rdata \o zone_ns_records(zone_name, zone.ns_records)

\* the response once the closest parent zone of the question name is known
nxdomain_response(query, authoritative, zone) ==
    LET rd == BitAnd(B(query, 2), 1)
        flags1 == BitOr(128, rd)
        head == Slice(query, 0, 2)
                \o << IF authoritative THEN BitOr(flags1, 4) ELSE flags1, 131 >>
                \o Slice(query, 4, 6) \o << 0, 0 >>
                \o << 0, IF zone.tag = "Some" THEN 1 ELSE 0 >>
                \o << 0, IF has_opt_record(query) THEN 1 ELSE 0 >>
        qs == question_copy(query)
    IN  IF qs.tag = "Err" THEN None
        ELSE IF qs.tag = "Panic" THEN Panic
        ELSE Some(head \o qs.val
                  \o (IF zone.tag = "Some" THEN nxdomain_authority(zone.val) ELSE << >>)
                  \o edns_tail(query))

build_nxdomain_response(query, authoritative, config, db) ==
    LET domain == extract_domain(query) IN
    IF domain.tag # "Some" THEN None
    ELSE nxdomain_response(query, authoritative,
             find_closest_parent_zone(domain.val, get_authoritative_zones(db, config)))

(***************************************************************************)
(* cache.rs: DnsCache.  A cache is a function from the cached domains to   *)
(* entries [ip, inserted, ttl]; inserted and the clock count ticks of      *)
(* 1/TicksPerSec seconds, ttl counts seconds.                              *)
(***************************************************************************)
TicksPerSec == 2

CACHE_CLEANUP_INTERVAL == 300

\* entry.inserted.elapsed().as_secs() <= entry.ttl
entry_valid(entry, clock) == (clock - entry.inserted) \div TicksPerSec <= entry.ttl

CacheRemove(cache, domain) == [d \in DOMAIN cache \ {domain} |-> cache[d]]

CacheInsert(cache, domain, entry) ==
    [d \in DOMAIN cache \cup {domain} |-> IF d = domain THEN entry ELSE cache[d]]

\* the value returned by get and the map it leaves
DnsCache_get(cache, domain, clock) ==
    IF domain \in DOMAIN cache /\ entry_valid(cache[domain], clock)
    THEN [ret |-> Some(<< cache[domain].ip, cache[domain].ttl >>), cache |-> cache]
    ELSE [ret |-> None, cache |-> cache]

DnsCache_set(cache, domain, ip, ttl, clock) ==
    CacheInsert(cache, domain, [ip |-> ip, inserted |-> clock, ttl |-> ttl])

\* a sweep that retains nothing
cleanup_everything(cache, clock) == [d \in {} |-> 0]

\* a sweep that retains everything
cleanup_nothing(cache, clock) == cache

DnsCache_cleanup(cache, clock) ==
    [d \in {k \in DOMAIN cache : entry_valid(cache[k], clock)} |-> cache[d]]

(***************************************************************************)
(* dns.rs: the forwarder.  up gives, per upstream and protocol, what the   *)
(* exchange yields: Err (an I/O error), Some(bytes) (a reply) or Silent    *)
(* (no datagram ever arrives: recv_from has no timeout).                   *)
(***************************************************************************)
Silent == [tag |-> "Silent", val |-> << >>]

RECURSIVE forward_pass(_, _, _)
forward_pass(forwarders, answers, contacted) ==
    IF Len(forwarders) = 0 THEN [ret |-> None, contacted |-> contacted]
    ELSE LET f == forwarders[1]
             r == answers[f]
         IN  IF r.tag = "Some" THEN [ret |-> r, contacted |-> Append(contacted, f)]
             ELSE IF r.tag = "Silent"
                  THEN [ret |-> Silent, contacted |-> Append(contacted, f)]
             ELSE forward_pass(Tail(forwarders), answers, Append(contacted, f))

forward_to_resolvers(query, forwarders, up) == forward_pass(forwarders, up.udp, << >>)

forward_to_resolvers_tcp(query, forwarders, up) == forward_pass(forwarders, up.tcp, << >>)


(***************************************************************************)
(* dns.rs: generate_dns_response.  The value is the Result, the cache the  *)
(* call leaves, the branch that produced the Result (kind) and the         *)
(* accesses made on the way (steps): cache, store and upstream exchanges.  *)
(***************************************************************************)
Gen(ret, cache, kind, steps) == [ret |-> ret, cache |-> cache, kind |-> kind, steps |-> steps]

\* Option::ok_or on the Option a builder returns
ok_or(opt) == IF opt.tag = "Some" THEN Ok(opt.val) ELSE IF opt.tag = "None" THEN Err ELSE opt

requested_type_of(query_type) ==
    CASE query_type = 1 -> "A"
      [] query_type = 2 -> "NS"
      [] query_type = 5 -> "CNAME"
      [] query_type = 6 -> "SOA"
      [] query_type = 12 -> "PTR"
      [] query_type = 15 -> "MX"
      [] query_type = 16 -> "TXT"
      [] query_type = 28 -> "AAAA"
      [] OTHER -> ""

Step(what, arg) == << << what, arg >> >>

UpstreamSteps(proto, contacted) == [i \in 1..Len(contacted) |-> << proto, contacted[i] >>]

\* "Forward to upstream resolvers": UDP through the list, then TCP
forward_stage(query, config, up, cache, steps) ==
    LET u == forward_to_resolvers(query, config.forwarders, up)
        t == forward_to_resolvers_tcp(query, config.forwarders, up)
        su == steps \o UpstreamSteps("udp", u.contacted)
        st == su \o UpstreamSteps("tcp", t.contacted)
    IN  IF u.ret.tag = "Some" THEN Gen(Ok(u.ret.val), cache, "relay", su)
        ELSE IF u.ret.tag = "Silent" THEN Gen(Silent, cache, "relay", su)
        ELSE IF t.ret.tag = "Some" THEN Gen(Ok(t.ret.val), cache, "relay", st)
        ELSE IF t.ret.tag = "Silent" THEN Gen(Silent, cache, "relay", st)
        ELSE Gen(Err, cache, "unresolved", st)

\* from "Lookup records in database" to the end of generate_dns_response
store_stage(query, domain, query_type, config, db, up, cache, clock, steps0) ==
    LET records == lookup_records(db, domain)
        requested_type == requested_type_of(query_type)
        exact == SelectSeq(records, LAMBDA r : r.record_type = requested_type)
        fallback == SelectSeq(records, LAMBDA r : r.record_type = "A")
        steps == steps0 \o Step("store", "lookup")
    IN  IF Len(exact) > 0 THEN
            LET value == exact[1].value
                ttl == exact[1].ttl
            IN  CASE requested_type = "SOA" ->
                       Gen(build_soa_response(query, value, ttl, domain, config),
                           cache, "soa", steps)
                  [] requested_type = "NS" ->
                       Gen(build_ns_response(query, records, ttl, domain, config),
                           cache, "ns", steps)
                  [] requested_type \in {"MX", "TXT", "CNAME", "PTR"} ->
                       Gen(build_generic_record_response(query, value, ttl, domain,
                                                         query_type, config),
                           cache, "generic", steps)
                  [] requested_type \in {"A", "AAAA"} ->
                       Gen(build_dns_response(query, value, ttl, config),
                           DnsCache_set(cache, domain, value, ttl, clock),
                           "address", steps \o Step("cache", "set"))
                  [] OTHER -> Gen(Err, cache, "unsupported", steps)
        ELSE IF (query_type = 1 \/ query_type = 28) /\ Len(fallback) > 0 THEN
            Gen(build_dns_response(query, fallback[1].value, fallback[1].ttl, config),
                DnsCache_set(cache, domain, fallback[1].value, fallback[1].ttl, clock),
                "address", steps \o Step("cache", "set"))
        ELSE LET zones == get_authoritative_zones(db, config)
                 zsteps == steps \o Step("store", "zones")
             IN  IF config.authoritative
                    /\ find_closest_parent_zone(domain, zones).tag = "Some"
                 THEN Gen(ok_or(build_nxdomain_response(query, TRUE, config, db)),
                          cache, "nxdomain", zsteps \o Step("store", "zones"))
                 ELSE forward_stage(query, config, up, cache, zsteps)

\* "Check cache for A/AAAA queries": the probe, made for these two types only
cache_probe(query_type, cache, domain, clock) ==
    IF query_type = 1 \/ query_type = 28
    THEN [hit |-> DnsCache_get(cache, domain, clock), steps |-> Step("cache", "get")]
    ELSE [hit |-> [ret |-> None, cache |-> cache], steps |-> << >>]

\* a cache hit is answered from the cache, anything else from the store
cached_or_stored(query, domain, query_type, config, db, up, clock, probe) ==
    IF probe.hit.ret.tag = "Some"
    THEN Gen(build_dns_response(query, probe.hit.ret.val[1], probe.hit.ret.val[2], config),
             probe.hit.cache, "cached", probe.steps)
    ELSE store_stage(query, domain, query_type, config, db, up, probe.hit.cache, clock,
                     probe.steps)

generate_typed(query, domain, query_type, config, db, up, cache, clock) ==
    IF query_type = 48 /\ Len(config.dnskey_records) > 0
    THEN Gen(build_dnskey_response(query, config.dnskey_records[1], 3600, config),
             cache, "dnskey", << >>)
    ELSE IF query_type = 43 /\ Len(config.ds_records) > 0
    THEN Gen(build_ds_response(query, config.ds_records[1], 3600, config),
             cache, "ds", << >>)
    ELSE IF query_type = 48 \/ query_type = 43
    THEN Gen(ok_or(build_nxdomain_response(query, config.authoritative, config, db)),
             cache, "nxdomain", Step("store", "zones"))
    ELSE cached_or_stored(query, domain, query_type, config, db, up, clock,
                          cache_probe(query_type, cache, domain, clock))

generate_dns_response(query, domain, config, db, up, cache, clock) ==
    generate_typed(query, domain, unwrap_or(extract_query_type(query), 1),
                   config, db, up, cache, clock)

(***************************************************************************)
(* handlers.rs: handle_udp_query, handle_tcp_connection.  sent is the      *)
(* message written to the socket, if any; outcome says how the task ended. *)
(***************************************************************************)
Handled(sent, outcome, kind, cache, steps) ==
    [sent |-> sent, outcome |-> outcome, kind |-> kind, cache |-> cache, steps |-> steps]

\* an Err arm that hands the error of the resolver on and sends nothing
nxdomain_fallback_propagate(nx, g) ==
    Handled(None, "err", "nxdomain_fallback", g.cache, g.steps)

\* the Err arm of both handlers: build_nxdomain_response with the configured
\* authority flag; nx is what the builder returned
nxdomain_fallback(nx, g) ==
    LET steps == g.steps \o Step("store", "zones")
    IN  IF nx.tag = "Some" THEN Handled(nx, "ok", "nxdomain_fallback", g.cache, steps)
        ELSE IF nx.tag = "Panic"
        THEN Handled(None, "panic", "nxdomain_fallback", g.cache, steps)
        ELSE Handled(None, "err", "nxdomain_fallback", g.cache, steps)

\* the match on the Result g of generate_dns_response
respond(query, config, db, g) ==
    IF g.ret.tag = "Ok" THEN Handled(Some(g.ret.val), "ok", g.kind, g.cache, g.steps)
    ELSE IF g.ret.tag = "Err"
    THEN nxdomain_fallback(build_nxdomain_response(query, config.authoritative,
                                                   config, db), g)
    ELSE IF g.ret.tag = "Panic" THEN Handled(None, "panic", g.kind, g.cache, g.steps)
    ELSE Handled(None, "hang", g.kind, g.cache, g.steps)

\* the Option of build_not_implemented_response, sent when it is Some
not_implemented(response, cache) ==
    IF response.tag = "Some" THEN Handled(response, "ok", "notimp", cache, << >>)
    ELSE Handled(None, "ok", "dropped", cache, << >>)

\* a handler that answers a packet shorter than a header with a format error
handle_query_formerr_short(query, config, db, up, cache, clock) ==
    IF Len(query) < 12
    THEN Handled(Some(<< 0, 0, 128, 1, 0, 0, 0, 0, 0, 0, 0, 0 >>), "ok", "dropped",
                 cache, << >>)
    ELSE IF BitAnd(B(query, 2), 120) \div 8 # 0
    THEN not_implemented(build_not_implemented_response(query, config.authoritative),
                         cache)
    ELSE LET domain == extract_domain(query) IN
         IF domain.tag # "Some" THEN Handled(None, "ok", "dropped", cache, << >>)
         ELSE respond(query, config, db,
                      generate_dns_response(query, domain.val, config, db, up,
                                            cache, clock))

\* the body both handlers share once the message octets are in hand
handle_query(query, config, db, up, cache, clock) ==
    IF Len(query) < 12 THEN Handled(None, "ok", "dropped", cache, << >>)
    ELSE IF BitAnd(B(query, 2), 120) \div 8 # 0
    THEN not_implemented(build_not_implemented_response(query, config.authoritative),
                         cache)
    ELSE LET domain == extract_domain(query) IN
         IF domain.tag # "Some" THEN Handled(None, "ok", "dropped", cache, << >>)
         ELSE respond(query, config, db,
                      generate_dns_response(query, domain.val, config, db, up,
                                            cache, clock))

handle_udp_query(query, config, db, up, cache, clock) ==
    handle_query(query, config, db, up, cache, clock)

\* the stream carries a two-octet length before the message, both ways
send_tcp_response(response) == BE16(Len(response) % 65536) \o response

\* what a TCP handler writes: the handled message behind its length
framed(h) ==
    IF h.sent.tag = "Some" THEN [h EXCEPT !.sent = Some(send_tcp_response(h.sent.val))]
    ELSE h

handle_tcp_connection(query, config, db, up, cache, clock) ==
    framed(handle_query(query, config, db, up, cache, clock))


(***************************************************************************)
(* main.rs: the binary's own builders                                      *)
(***************************************************************************)
\* str::splitn(n, sep): at most n pieces, the last one holding the rest
SplitN(s, n, sep) ==
    LET all == Split(s, sep) IN
    IF Len(all) <= n THEN all
    ELSE [k \in 1..n |-> IF k < n THEN all[k]
                         ELSE SubSeq(s, SepPos(s, sep, n - 1) + 1, Len(s))]

\* flags of the binary's positive answers: QR | AA(config) | RD, then RA
main_flags(query, config) ==
    << BitOr(BitOr(128, IF config.authoritative THEN 4 ELSE 0), BitAnd(B(query, 2), 1)), 128 >>

main_build_ds_response(query, ds_record, ttl, config) ==
    LET parts == SplitN(ds_record, 7, Space) IN
    IF Len(parts) # 7 THEN Err
    ELSE LET key_tag == ParseUint(parts[4], 65535)
             algorithm == ParseUint(parts[5], 255)
             digest_type == ParseUint(parts[6], 255)
             digest == hex_decode(parts[7])
             qs == question_copy(query)
         IN  IF key_tag.tag # "Some" \/ algorithm.tag # "Some"
                \/ digest_type.tag # "Some" \/ digest.tag # "Some" THEN Err
             ELSE IF qs.tag # "Ok" THEN qs
             ELSE Ok(Slice(query, 0, 2) \o main_flags(query, config)
                     \o << 0, 1 >> \o << 0, 0 >> \o << 0, 1 >> \o << 0, 0 >>
                     \o qs.val \o rr_head(43, ttl)
                     \o BE16((4 + Len(digest.val)) % 65536)
                     \o BE16(key_tag.val) \o << algorithm.val, digest_type.val >>
                     \o digest.val)

main_build_dnskey_response(query, dnskey_record, ttl, config) ==
    LET parts == SplitN(dnskey_record, 7, Space) IN
    IF Len(parts) # 7 THEN Err
    ELSE LET flags == ParseUint(parts[4], 65535)
             protocol == ParseUint(parts[5], 255)
             algorithm == ParseUint(parts[6], 255)
             public_key == base64_decode(parts[7])
             qs == question_copy(query)
         IN  IF flags.tag # "Some" \/ protocol.tag # "Some"
                \/ algorithm.tag # "Some" \/ public_key.tag # "Some" THEN Err
             ELSE IF qs.tag # "Ok" THEN qs
             ELSE Ok(Slice(query, 0, 2) \o main_flags(query, config)
                     \o << 0, 1 >> \o << 0, 1 >> \o << 0, 0 >> \o << 0, 0 >>
                     \o qs.val \o rr_head(48, ttl)
                     \o BE16((4 + Len(public_key.val)) % 65536)
                     \o BE16(flags.val) \o << protocol.val, algorithm.val >>
                     \o public_key.val)

\* "Add authoritative NS records if configured": one RR per configured name
\* server, owned by the question name
RECURSIVE main_config_ns(_, _)
main_config_ns(ns_records, ttl) ==
    IF Len(ns_records) = 0 THEN << >>
    ELSE LET ns_data == encode_dns_name(ns_records[1]) IN
         rr_head(2, ttl) \o BE16(Len(ns_data) % 65536) \o ns_data
             \o main_config_ns(Tail(ns_records), ttl)

main_authority(ttl, config) ==
    IF config.authoritative THEN main_config_ns(config.ns_records, ttl) ELSE << >>

\* header of the binary's A/SOA/generic answers: ANCOUNT 1, NSCOUNT 2 when
\* authoritative, ARCOUNT 0
main_answer_header(query, config) ==
    Slice(query, 0, 2) \o main_flags(query, config) \o Slice(query, 4, 6)
        \o << 0, 1 >> \o << 0, IF config.authoritative THEN 2 ELSE 0 >> \o << 0, 0 >>

main_soa_default(i) ==
    CASE i = 1 -> 1 [] i = 2 -> 10800 [] i = 3 -> 3600 [] i = 4 -> 604800 [] OTHER -> 86400

main_build_soa_response(query, soa_value, ttl, domain, config) ==
    LET qs == question_copy(query)
        soa_parts == split_whitespace(soa_value)
        mname == IF Len(soa_parts) >= 7 THEN encode_dns_name(soa_parts[1])
                 ELSE encode_dns_name(IF Len(config.ns_records) > 0
                                      THEN config.ns_records[1] ELSE Ns1ExampleCom)
        rname == IF Len(soa_parts) >= 7 THEN encode_dns_name(soa_parts[2])
                 ELSE encode_dns_name(Hostmaster \o domain)
        nums == [i \in 1..5 |->
                   IF Len(soa_parts) >= 7
                   THEN unwrap_or(ParseU32(soa_parts[i + 2]), BE32(main_soa_default(i)))
                   ELSE BE32(main_soa_default(i))]
    IN  IF qs.tag # "Ok" THEN qs
        ELSE Ok(main_answer_header(query, config) \o qs.val \o rr_head(6, ttl)
                \o BE16((Len(mname) + Len(rname) + 20) % 65536) \o mname \o rname
                \o nums[1] \o nums[2] \o nums[3] \o nums[4] \o nums[5]
                \o main_authority(ttl, config))

main_build_ns_response(query, records, ttl, domain, config) ==
    LET db_ns_records == SelectSeq(records, LAMBDA r : r.record_type = "NS")
        ns_records == IF Len(db_ns_records) = 0 /\ config.authoritative
                      THEN [i \in 1..Len(config.ns_records) |->
                              [value |-> config.ns_records[i], ttl |-> config.cache_ttl]]
                      ELSE [i \in 1..Len(db_ns_records) |->
                              [value |-> db_ns_records[i].value, ttl |-> db_ns_records[i].ttl]]
        qs == question_copy(query)
    IN  IF qs.tag # "Ok" THEN qs
        ELSE Ok(Slice(query, 0, 2) \o main_flags(query, config) \o Slice(query, 4, 6)
                \o BE16(Len(ns_records) % 65536) \o << 0, 0 >> \o << 0, 0 >>
                \o qs.val \o ns_answers(ns_records))


\* ip.split('.').map(|s| s.parse::<u8>().unwrap_or(0))
main_ipv4_octets(ip) ==
    [i \in 1..Len(Split(ip, Dot)) |-> unwrap_or(ParseUint(Split(ip, Dot)[i], 255), 0)]

main_build_dns_response(query, ip, ttl, config) ==
    LET qs == question_copy(query)
        ip_parts == main_ipv4_octets(ip)
    IN  IF qs.tag # "Ok" THEN qs
        ELSE IF Len(ip_parts) # 4 THEN Err
        ELSE Ok(main_answer_header(query, config) \o qs.val \o rr_head(1, ttl)
                \o << 0, 4 >> \o ip_parts \o main_authority(ttl, config))

main_build_generic_record_response(query, value, ttl, domain, query_type, config) ==
    LET qs == question_copy(query)
        head == main_answer_header(query, config) \o qs.val \o rr_head(query_type, ttl)
        tail == main_authority(ttl, config)
    IN  IF qs.tag # "Ok" THEN qs
        ELSE IF query_type = 12 \/ query_type = 5 THEN
            LET name_data == encode_dns_name(value) IN
            Ok(head \o BE16(Len(name_data) % 65536) \o name_data \o tail)
        ELSE IF query_type = 15 THEN
            LET parts == split_whitespace(value) IN
            IF Len(parts) < 2 THEN Err
            ELSE LET preference == unwrap_or(ParseUint(parts[1], 65535), 10)
                     encoded_name == encode_dns_name(parts[2])
                 IN  Ok(head \o BE16((2 + Len(encoded_name)) % 65536)
                        \o BE16(preference) \o encoded_name \o tail)
        ELSE IF query_type = 16 THEN
            LET quoted == Len(value) > 0 /\ value[1] = Quote /\ value[Len(value)] = Quote IN
            IF quoted /\ Len(value) = 1 THEN Panic
            ELSE LET txt_value == IF quoted THEN SubSeq(value, 2, Len(value) - 1) ELSE value IN
                 Ok(head \o BE16((Len(txt_value) + 1) % 65536)
                    \o << Len(txt_value) % 256 >> \o txt_value \o tail)
        ELSE Err

(***************************************************************************)
(* main.rs: the binary's OPT scanners                                      *)
(***************************************************************************)
\* "Find the end of the name field": the position where the while loop stops
RECURSIVE main_skip_name(_, _)
main_skip_name(query, pos) ==
    IF pos < Len(query) /\ B(query, pos) # 0
    THEN IF BitAnd(B(query, pos), 192) = 192 THEN pos + 2
         ELSE main_skip_name(query, pos + B(query, pos) + 1)
    ELSE pos

\* the loop over the additional records; the position of the OPT record or -1
RECURSIVE main_scan_additional(_, _, _)
main_scan_additional(query, pos, n) ==
    IF n = 0 THEN -1
    ELSE IF pos + 2 >= Len(query) THEN -1
    ELSE IF B(query, pos) = 0 /\ pos + 5 < Len(query)
            /\ B(query, pos + 1) = 0 /\ B(query, pos + 2) = 41 THEN pos
    ELSE LET p == main_skip_name(query, pos + 1) IN
         IF p + 10 <= Len(query)
         THEN main_scan_additional(query, p + 10 + U16At(query, p + 8), n - 1)
         ELSE -1

main_find_opt(query) ==
    IF Len(query) < 12 THEN -1
    ELSE IF U16At(query, 10) = 0 THEN -1
    ELSE LET q == skip_qname(query, 12) IN
         IF q < 0 THEN -1
         ELSE main_scan_additional(query, q + 4, U16At(query, 10))

main_has_opt_record(query) == main_find_opt(query) >= 0

main_extract_edns_payload_size(query) ==
    LET pos == main_find_opt(query) IN
    IF pos < 0 THEN None ELSE Some(U16At(query, pos + 3))

\* first position from pos on that is past the end or holds a zero octet
RECURSIVE main_scan_zero(_, _)
main_scan_zero(query, pos) ==
    IF pos < Len(query) /\ B(query, pos) # 0 THEN main_scan_zero(query, pos + 1) ELSE pos

RECURSIVE main_do_loop(_, _)
main_do_loop(query, pos) ==
    IF pos + 11 > Len(query) THEN FALSE
    ELSE IF B(query, pos) = 0 /\ B(query, pos + 1) = 0 /\ B(query, pos + 2) = 41
         THEN pos + 9 < Len(query) /\ BitAnd(B(query, pos + 9), 128) # 0
    ELSE IF pos + 10 >= Len(query) THEN FALSE
    ELSE main_do_loop(query, pos + 10 + U16At(query, pos + 8))

main_extract_do_bit(query) == main_do_loop(query, main_scan_zero(query, 12) + 5)

main_opt_record(query, do_bit) ==
    << 0 >> \o << 0, 41 >> \o BE16(unwrap_or(main_extract_edns_payload_size(query), 4096))
        \o << 0 >> \o << 0 >> \o (IF do_bit THEN << 128, 0 >> ELSE << 0, 0 >>) \o << 0, 0 >>

main_build_not_implemented_response(query, authoritative) ==
    LET flags1 == BitOr(128, BitAnd(B(query, 2), 121))
        flags2 == 132
        has_edns == main_has_opt_record(query)
        end == PositionZero(query, 12)
        question == IF end >= 0 /\ end + 5 <= Len(query)
                    THEN Slice(query, 12, end + 5) ELSE << >>
        do_bit == IF Len(query) >= 17 THEN main_extract_do_bit(query) ELSE FALSE
    IN  Some(Slice(query, 0, 2)
             \o << flags1, IF authoritative THEN BitOr(flags2, 4) ELSE flags2 >>
             \o Slice(query, 4, 6) \o << 0, 0 >> \o << 0, 0 >>
             \o << 0, IF has_edns THEN 1 ELSE 0 >>
             \o question
             \o (IF has_edns THEN main_opt_record(query, do_bit) ELSE << >>))


(***************************************************************************)
(* main.rs: extract_domain, build_nxdomain_response                        *)
(***************************************************************************)
\* the binary's QNAME loop indexes query[pos] without a bound check
RECURSIVE main_extract_domain_loop(_, _, _)
main_extract_domain_loop(query, pos, domain) ==
    IF pos >= Len(query) THEN Panic
    ELSE LET len == B(query, pos) IN
         IF len = 0 THEN Some([domain |-> domain, pos |-> pos])
         ELSE IF pos + 1 + len > Len(query) THEN None
         ELSE LET label == Slice(query, pos + 1, pos + 1 + len) IN
              IF ~from_utf8_ok(label) THEN None
              ELSE main_extract_domain_loop(query, pos + 1 + len,
                       IF Len(domain) > 0 THEN domain \o << Dot >> \o label ELSE label)

main_extract_domain(query) ==
    IF Len(query) < 12 THEN None
    ELSE LET r == main_extract_domain_loop(query, 12, << >>) IN
         IF r.tag # "Some" THEN r
         ELSE IF r.val.pos + 4 > Len(query) THEN None
         ELSE Some(r.val.domain)

\* the SOA authority record of the parent zone, from the parts of its SOA text
main_nxdomain_soa_rr(zone, zone_name, soa_parts) ==
    LET mname == IF Len(soa_parts) >= 7 THEN encode_dns_name(soa_parts[1])
                 ELSE encode_dns_name(IF Len(zone.ns_records) > 0
                                      THEN zone.ns_records[1] ELSE Ns1ExampleCom)
        rname == IF Len(soa_parts) >= 7 THEN encode_dns_name(soa_parts[2])
                 ELSE encode_dns_name(Hostmaster \o zone.name)
        nums == [i \in 1..5 |->
                   IF Len(soa_parts) >= 7
                   THEN unwrap_or(ParseU32(soa_parts[i + 2]), BE32(main_soa_default(i)))
                   ELSE BE32(main_soa_default(i))]
    IN  zone_rr_head(zone_name, 6)
            \o BE16((Len(mname) + Len(rname) + 20) % 65536) \o mname \o rname
            \o nums[1] \o nums[2] \o nums[3] \o nums[4] \o nums[5]

main_nxdomain_soa(zone, zone_name) ==
    IF zone.soa_record.tag # "Some" THEN << >>
    ELSE main_nxdomain_soa_rr(zone, zone_name, split_whitespace(zone.soa_record.val))

\* the authority section: SOA, then one NS record per name server of the zone
main_nxdomain_authority(zone, zone_name) ==
    main_nxdomain_soa(zone, zone_name) \o zone_ns_records(zone_name, zone.ns_records)

\* the response once the closest parent zone of the question name is known
main_nxdomain_response(query, authoritative, parent_zone) ==
    LET is_authoritative == parent_zone.tag = "Some" /\ authoritative
        flags1 == BitOr(128, BitAnd(B(query, 2), 1))
        ns_count == IF is_authoritative THEN Len(parent_zone.val.ns_records) ELSE 0
        soa_count == IF is_authoritative /\ parent_zone.val.soa_record.tag = "Some"
                     THEN 1 ELSE 0
        has_edns == main_has_opt_record(query)
        end == PositionZero(query, 12)
    IN  IF end < 0 \/ end + 5 > Len(query) THEN None
        ELSE Some(Slice(query, 0, 2)
                  \o << IF is_authoritative THEN BitOr(flags1, 4) ELSE flags1, 131 >>
                  \o Slice(query, 4, 6) \o << 0, 0 >>
                  \o BE16((ns_count + soa_count) % 65536)
                  \o << 0, IF has_edns THEN 1 ELSE 0 >>
                  \o Slice(query, 12, end + 5)
                  \o (IF is_authoritative
                      THEN main_nxdomain_authority(parent_zone.val,
                                                   encode_dns_name(parent_zone.val.name))
                      ELSE << >>)
                  \o (IF has_edns
                      THEN main_opt_record(query, main_extract_do_bit(query))
                      ELSE << >>))

main_build_nxdomain_response(query, authoritative, config, db) ==
    LET domain == main_extract_domain(query) IN
    IF domain.tag # "Some" THEN domain
    ELSE main_nxdomain_response(query, authoritative,
             find_closest_parent_zone(domain.val, get_authoritative_zones(db, config)))

(***************************************************************************)
(* main.rs: DnsCache::get (set and cleanup are those of cache.rs)          *)
(***************************************************************************)
main_DnsCache_get(cache, domain, clock) ==
    IF domain \notin DOMAIN cache THEN [ret |-> None, cache |-> cache]
    ELSE IF entry_valid(cache[domain], clock)
    THEN [ret |-> Some(<< cache[domain].ip, cache[domain].ttl >>), cache |-> cache]
    ELSE [ret |-> None, cache |-> CacheRemove(cache, domain)]


(***************************************************************************)
(* main.rs: generate_dns_response, handle_udp_query, handle_tcp_connection *)
(***************************************************************************)
\* response[2] &= 0xFB when the reply has at least three octets
clear_aa(response) ==
    IF Len(response) >= 3
    THEN [response EXCEPT ![3] = BitAnd(response[3], 251)]
    ELSE response

\* "Authority and forwarding logic"
main_authority_stage(query, domain, config, db, up, cache, steps0) ==
    LET zones == get_authoritative_zones(db, config)
        is_authoritative == find_closest_parent_zone(domain, zones).tag = "Some"
                            /\ config.authoritative
        steps == steps0 \o Step("store", "zones")
        u == forward_to_resolvers(query, config.forwarders, up)
        forwarding == ~is_authoritative /\ Len(config.forwarders) > 0
        su == IF forwarding THEN steps \o UpstreamSteps("udp", u.contacted) ELSE steps
    IN  IF forwarding /\ u.ret.tag = "Some"
        THEN Gen(Ok(clear_aa(u.ret.val)), cache, "relay", su)
        ELSE IF forwarding /\ u.ret.tag = "Silent" THEN Gen(Silent, cache, "relay", su)
        ELSE Gen(ok_or(main_build_nxdomain_response(query, is_authoritative, config, db)),
                 cache, "nxdomain", su \o Step("store", "zones"))

main_store_stage(query, domain, query_type, config, db, up, cache, clock, steps0) ==
    LET records == lookup_records(db, domain)
        requested_type == requested_type_of(query_type)
        exact == SelectSeq(records, LAMBDA r : r.record_type = requested_type)
        fallback == SelectSeq(records, LAMBDA r : r.record_type \in {"A", "AAAA"})
        steps == steps0 \o Step("store", "lookup")
    IN  IF Len(exact) > 0 THEN
            LET value == exact[1].value
                ttl == exact[1].ttl
            IN  CASE requested_type = "SOA" ->
                       Gen(main_build_soa_response(query, value, ttl, domain, config),
                           cache, "soa", steps)
                  [] requested_type = "NS" ->
                       Gen(main_build_ns_response(query, records, ttl, domain, config),
                           cache, "ns", steps)
                  [] requested_type \in {"MX", "TXT", "CNAME", "PTR"} ->
                       Gen(main_build_generic_record_response(query, value, ttl, domain,
                                                              query_type, config),
                           cache, "generic", steps)
                  [] requested_type \in {"A", "AAAA"} ->
                       Gen(main_build_dns_response(query, value, ttl, config),
                           DnsCache_set(cache, domain, value, ttl, clock),
                           "address", steps \o Step("cache", "set"))
                  [] OTHER -> Gen(Err, cache, "unsupported", steps)
        ELSE IF (query_type = 1 \/ query_type = 28) /\ Len(fallback) > 0 THEN
            Gen(main_build_dns_response(query, fallback[1].value, fallback[1].ttl, config),
                DnsCache_set(cache, domain, fallback[1].value, fallback[1].ttl, clock),
                "address", steps \o Step("cache", "set"))
        ELSE main_authority_stage(query, domain, config, db, up, cache, steps)

main_cache_probe(query_type, cache, domain, clock) ==
    IF query_type = 1 \/ query_type = 28
    THEN [hit |-> main_DnsCache_get(cache, domain, clock), steps |-> Step("cache", "get")]
    ELSE [hit |-> [ret |-> None, cache |-> cache], steps |-> << >>]

main_cached_or_stored(query, domain, query_type, config, db, up, clock, probe) ==
    IF probe.hit.ret.tag = "Some"
    THEN Gen(main_build_dns_response(query, probe.hit.ret.val[1], probe.hit.ret.val[2],
                                     config),
             probe.hit.cache, "cached", probe.steps)
    ELSE main_store_stage(query, domain, query_type, config, db, up, probe.hit.cache,
                          clock, probe.steps)

main_generate_typed(query, domain, query_type, config, db, up, cache, clock) ==
    IF query_type = 48 /\ Len(config.dnskey_records) > 0
    THEN Gen(main_build_dnskey_response(query, config.dnskey_records[1], 3600, config),
             cache, "dnskey", << >>)
    ELSE IF query_type = 43 /\ Len(config.ds_records) > 0
    THEN Gen(main_build_ds_response(query, config.ds_records[1], 3600, config),
             cache, "ds", << >>)
    ELSE IF query_type = 48 \/ query_type = 43
    THEN Gen(ok_or(main_build_nxdomain_response(query, config.authoritative, config, db)),
             cache, "nxdomain", Step("store", "zones"))
    ELSE main_cached_or_stored(query, domain, query_type, config, db, up, clock,
                               main_cache_probe(query_type, cache, domain, clock))

main_generate_dns_response(query, domain, config, db, up, cache, clock) ==
    main_generate_typed(query, domain, unwrap_or(extract_query_type(query), 1),
                        config, db, up, cache, clock)

\* the Err arm of both handlers: NXDOMAIN with the configured authority flag;
\* nx is what main_build_nxdomain_response returned
main_nxdomain_fallback(nx, g, steps0) ==
    LET steps == steps0 \o Step("store", "zones")
    IN  IF nx.tag = "Some" THEN Handled(nx, "ok", "nxdomain_fallback", g.cache, steps)
        ELSE IF nx.tag = "Panic"
        THEN Handled(None, "panic", "nxdomain_fallback", g.cache, steps)
        ELSE Handled(None, "err", "nxdomain_fallback", g.cache, steps)

\* the Err arm of handle_tcp_connection tries the forwarders over TCP first;
\* the Err arm of handle_udp_query does not
main_tcp_retry(tcp, query, config, up) ==
    IF tcp /\ Len(config.forwarders) > 0
    THEN forward_to_resolvers_tcp(query, config.forwarders, up)
    ELSE [ret |-> None, contacted |-> << >>]

\* the Err arm: the reply t of the TCP retry is relayed, else NXDOMAIN
main_err_arm(query, config, db, t, g) ==
    LET steps == g.steps \o UpstreamSteps("tcp", t.contacted)
    IN  IF t.ret.tag = "Some" THEN Handled(t.ret, "ok", "relay", g.cache, steps)
        ELSE IF t.ret.tag = "Silent" THEN Handled(None, "hang", "relay", g.cache, steps)
        ELSE main_nxdomain_fallback(
                 main_build_nxdomain_response(query, config.authoritative, config, db),
                 g, steps)

\* the match on the Result g of generate_dns_response
main_respond(query, config, db, up, tcp, g) ==
    IF g.ret.tag = "Ok" THEN Handled(Some(g.ret.val), "ok", g.kind, g.cache, g.steps)
    ELSE IF g.ret.tag = "Err"
    THEN main_err_arm(query, config, db, main_tcp_retry(tcp, query, config, up), g)
    ELSE IF g.ret.tag = "Panic" THEN Handled(None, "panic", g.kind, g.cache, g.steps)
    ELSE Handled(None, "hang", g.kind, g.cache, g.steps)

main_handle_query(query, config, db, up, cache, clock, tcp) ==
    IF Len(query) < 12 THEN Handled(None, "ok", "dropped", cache, << >>)
    ELSE IF BitAnd(B(query, 2), 120) \div 8 # 0 THEN
        Handled(main_build_not_implemented_response(query, config.authoritative),
                "ok", "notimp", cache, << >>)
    ELSE LET domain == main_extract_domain(query) IN
         IF domain.tag = "Panic" THEN Handled(None, "panic", "dropped", cache, << >>)
         ELSE IF domain.tag # "Some" THEN Handled(None, "ok", "dropped", cache, << >>)
         ELSE main_respond(query, config, db, up, tcp,
                           main_generate_dns_response(query, domain.val, config, db, up,
                                                      cache, clock))

main_handle_udp_query(query, config, db, up, cache, clock) ==
    main_handle_query(query, config, db, up, cache, clock, FALSE)

main_handle_tcp_connection(query, config, db, up, cache, clock) ==
    framed(main_handle_query(query, config, db, up, cache, clock, TRUE))


(***************************************************************************)
(* The deployment the model runs: configuration values (what from_env      *)
(* reads), the record store, the upstream resolvers and the requests.      *)
(* Text is written as character codes; the comment gives the text.         *)
(***************************************************************************)
\* "ns1.x.y." and "ns2.x.y."
NsRecords == << << 110, 115, 49, 46, 120, 46, 121, 46 >>, << 110, 115, 50, 46, 120, 46, 121, 46 >> >>

\* "x.y"
DefaultDomain == << 120, 46, 121 >>

\* the DS record from_env hard-codes: the library's and the binary's
\* "yourdomain.tld. IN DS 24550 8 2 1F21...80A0" / "bzo.in. IN DS 24550 8 2 1F21...80A0"
DsRecordLib == << 121, 111, 117, 114, 100, 111, 109, 97, 105, 110, 46, 116, 108, 100, 46, 32, 73, 78, 32, 68, 83, 32, 50, 52, 53, 53, 48, 32, 56, 32, 50, 32, 49, 70, 50, 49, 67, 65, 50, 56, 50, 57, 52, 53, 52, 51, 52, 69, 69, 48, 54, 54, 50, 56, 48, 53, 52, 51, 48, 53, 57, 57, 67, 66, 50, 65, 54, 67, 52, 55, 57, 68, 57, 70, 57, 51, 52, 48, 56, 55, 49, 53, 48, 57, 48, 49, 67, 69, 50, 68, 65, 53, 56, 48, 65, 48 >>

DsRecordBin == << 98, 122, 111, 46, 105, 110, 46, 32, 73, 78, 32, 68, 83, 32, 50, 52, 53, 53, 48, 32, 56, 32, 50, 32, 49, 70, 50, 49, 67, 65, 50, 56, 50, 57, 52, 53, 52, 51, 52, 69, 69, 48, 54, 54, 50, 56, 48, 53, 52, 51, 48, 53, 57, 57, 67, 66, 50, 65, 54, 67, 52, 55, 57, 68, 57, 70, 57, 51, 52, 48, 56, 55, 49, 53, 48, 57, 48, 49, 67, 69, 50, 68, 65, 53, 56, 48, 65, 48 >>

\* the content of the key file: "x.y. IN DNSKEY 256 3 8 AwEAAQ=="
DnskeyRecord == << 120, 46, 121, 46, 32, 73, 78, 32, 68, 78, 83, 75, 69, 89, 32, 50, 53, 54, 32, 51, 32, 56, 32, 65, 119, 69, 65, 65, 81, 61, 61 >>

Forwarders == << "U1", "U2" >>

ServerConfig(b, authoritative, forwarding, key) ==
    [authoritative |-> authoritative,
     ns_records |-> NsRecords,
     default_domain |-> DefaultDomain,
     cache_ttl |-> DEFAULT_TTL,
     forwarders |-> IF forwarding THEN Forwarders ELSE << >>,
     ds_records |-> << IF b = "lib" THEN DsRecordLib ELSE DsRecordBin >>,
     dnskey_records |-> IF key THEN << DnskeyRecord >> ELSE << >>]

Row(domain, record_type, value, ttl) ==
    [domain |-> domain, record_type |-> record_type, value |-> value, ttl |-> ttl]

\* the rows of dns_records in primary-key order (domain, record_type, value)
Rows ==
    << Row(<< 97, 46, 120, 46, 121 >>, "A", << 49, 57, 50, 46, 48, 46, 50, 46, 49 >>, 1),                 \* a.x.y A 192.0.2.1
       Row(<< 98, 46, 120, 46, 121 >>, "AAAA", << 50, 48, 48, 49, 58, 100, 98, 56, 58, 58, 50 >>, 0),              \* b.x.y AAAA 2001:db8::2
       Row(<< 109, 46, 120, 46, 121 >>, "MX", << 49, 48 >>, 3600),                              \* m.x.y MX "10"
       Row(<< 109, 46, 120, 46, 121 >>, "SOA", << 110, 115, 49, 46, 120, 46, 121, 46, 32, 104, 46, 120, 46, 121, 46, 32, 55 >>, 3600),   \* m.x.y SOA "ns1.x.y. h.x.y. 7"
       Row(<< 112, 46, 120, 46, 121 >>, "CNAME", << 97, 46, 120, 46, 121, 46 >>, 3600),        \* p.x.y CNAME a.x.y.
       Row(<< 114, 46, 120, 46, 121 >>, "PTR", << 97, 46, 120, 46, 121, 46 >>, 3600),          \* r.x.y PTR a.x.y.
       Row(<< 120, 46, 121 >>, "MX", << 49, 48, 32, 97, 46, 120, 46, 121, 46 >>, 3600),             \* x.y MX "10 a.x.y."
       Row(<< 120, 46, 121 >>, "NS", << 110, 115, 49, 46, 120, 46, 121, 46 >>, 3600),            \* x.y NS ns1.x.y.
       Row(<< 120, 46, 121 >>, "NS", << 110, 115, 50, 46, 120, 46, 121, 46 >>, 3600),            \* x.y NS ns2.x.y.
       Row(<< 120, 46, 121 >>, "SOA", << 110, 115, 49, 46, 120, 46, 121, 46, 32, 104, 46, 120, 46, 121, 46, 32, 55, 32, 49, 32, 50, 32, 51, 32, 52 >>, 3600),           \* x.y SOA "ns1.x.y. h.x.y. 7 1 2 3 4"
       Row(<< 120, 46, 121 >>, "TXT", << 34, 104, 105, 34 >>, 3600) >>         \* x.y TXT "\"hi\""

Store(ok) == [broken |-> ~ok, rows |-> IF ok THEN Rows ELSE << >>]

\* the deployments explored: authoritative or not, with or without
\* forwarders and DNSKEY, over a working or a failing store
Deployments(b) ==
    { [config |-> ServerConfig(b, TRUE, TRUE, TRUE), db |-> Store(TRUE)],
      [config |-> ServerConfig(b, FALSE, TRUE, TRUE), db |-> Store(TRUE)],
      [config |-> ServerConfig(b, FALSE, FALSE, FALSE), db |-> Store(FALSE)],
      [config |-> ServerConfig(b, TRUE, TRUE, FALSE), db |-> Store(FALSE)] }


(***************************************************************************)
(* The requests a client sends and the replies an upstream gives           *)
(***************************************************************************)
ClientId == << 190, 239 >>

\* an OPT pseudo-record: root owner, TYPE 41, CLASS = payload size, extended
\* RCODE and version 0, flags with DO as the top bit, no options
OptRR(payload, do) ==
    << 0, 0, 41 >> \o BE16(payload) \o << 0, 0 >> \o << IF do THEN 128 ELSE 0, 0 >>
        \o << 0, 0 >>

EdnsChoices == {"none", "do", "plain"}

Request(opcode, rd, qname, qtype, edns) ==
    ClientId \o << opcode * 8 + rd, 0 >> \o << 0, 1 >> \o << 0, 0 >> \o << 0, 0 >>
        \o << 0, IF edns = "none" THEN 0 ELSE 1 >>
        \o qname \o BE16(qtype) \o << 0, 1 >>
        \o (CASE edns = "do" -> OptRR(1232, TRUE)
              [] edns = "plain" -> OptRR(512, FALSE)
              [] OTHER -> << >>)

\* the encoded names asked about: a.x.y, b.x.y, p.x.y, r.x.y, x.y (in the store),
\* m.x.y (in the store, with values that cannot be encoded), n.x.y (in the zone,
\* no record), q.w (outside), and a one-octet label holding NUL
QA == << 1, 97, 1, 120, 1, 121, 0 >>
QB == << 1, 98, 1, 120, 1, 121, 0 >>
QP == << 1, 112, 1, 120, 1, 121, 0 >>
QR == << 1, 114, 1, 120, 1, 121, 0 >>
QXY == << 1, 120, 1, 121, 0 >>
QM == << 1, 109, 1, 120, 1, 121, 0 >>
QN == << 1, 110, 1, 120, 1, 121, 0 >>
QW == << 1, 113, 1, 119, 0 >>
QNul == << 1, 0, 0 >>

Questions ==
    { << QA, 1 >>, << QA, 28 >>, << QB, 28 >>, << QB, 1 >>, << QP, 5 >>, << QR, 12 >>,
      << QXY, 2 >>, << QXY, 6 >>, << QXY, 15 >>, << QXY, 16 >>, << QXY, 43 >>,
      << QXY, 48 >>, << QXY, 99 >>, << QA, 48 >>, << QM, 6 >>,
      << QM, 15 >>, << QN, 1 >>, << QN, 16 >>, << QW, 1 >>, << QNul, 1 >> }

\* well-formed packets whose prefixes are sent: a query without OPT, one with
\* OPT, and one with OPCODE 2 and OPT
Complete ==
    { Request(0, 1, QA, 1, "none"), Request(0, 1, QA, 1, "do"),
      Request(2, 1, QA, 1, "do") }

\* packets cut short: every proper prefix of the packets of Complete
Truncated == UNION { { SubSeq(p, 1, n) : n \in 0..(Len(p) - 1) } : p \in Complete }

\* the RD flag and the EDNS choice of a request: each value of either occurs
Flavours == { << 1, "none" >>, << 0, "do" >>, << 1, "plain" >> }

Queries ==
    { Request(0, f[1], q[1], q[2], f[2]) : q \in Questions, f \in Flavours }
    \cup { Request(2, f[1], QA, 1, f[2]) : f \in Flavours }
    \cup Truncated

\* a well-formed upstream answer to query: its id and question, one A record
UpstreamAnswer(query) ==
    LET qend == skip_qname(query, 12)
        last == IF qend + 4 <= Len(query) THEN qend + 4 ELSE Len(query)
    IN  Slice(query, 0, 2) \o << 133, 128 >> \o << 0, 1, 0, 1, 0, 0, 0, 0 >>
            \o Slice(query, 12, last)
            \o << 192, 12, 0, 1, 0, 1, 0, 0, 0, 60, 0, 4, 198, 51, 100, 7 >>

\* a reply that belongs to another exchange: another id, another question
StrayReply ==
    << 18, 52, 133, 128, 0, 1, 0, 1, 0, 0, 0, 0 >> \o QW \o << 0, 1, 0, 1 >>
        \o << 192, 12, 0, 1, 0, 1, 0, 0, 0, 60, 0, 4, 198, 51, 100, 9 >>

Upstream(u1, u2, t1, t2) ==
    [udp |-> [f \in {"U1", "U2"} |-> IF f = "U1" THEN u1 ELSE u2],
     tcp |-> [f \in {"U1", "U2"} |-> IF f = "U1" THEN t1 ELSE t2]]

Unreachable == Upstream(Err, Err, Err, Err)

\* what the upstreams may do with a forwarded query
Upstreams(query) ==
    { Unreachable,
      Upstream(Some(UpstreamAnswer(query)), Err, Err, Err),
      Upstream(Err, Some(StrayReply), Err, Err),
      Upstream(Err, Some(<< 190, 239 >>), Err, Err),
      Upstream(Err, Err, Err, Some(UpstreamAnswer(query))),
      Upstream(Err, Err, Some(StrayReply), Err),
      Upstream(Some(UpstreamAnswer(query)), Some(StrayReply), Err, Some(StrayReply)),
      Upstream(Silent, Err, Err, Err) }

(***************************************************************************)
(* The server.  build, config and db are fixed when the process starts;    *)
(* CACHE is the map behind the process-wide cache; now is the wall clock   *)
(* in ticks; exchange is the exchange a client has open: the request it    *)
(* sent, over which transport, and what the handler task did with it.      *)
(* holder is the task holding the mutex of the cache, calls the cache      *)
(* operation each task is in; written and lastSet record what the set      *)
(* operations have stored.  net is the transport layer when the loops and  *)
(* the tasks they spawn run side by side: the receive buffer of the UDP     *)
(* loop, the tasks in flight and the message the last step has sent; the   *)
(* sweeper task, the instant its interval fires next (due) and whether    *)
(* main has received the shutdown signal (down).                           *)
(***************************************************************************)
VARIABLES build, config, db, CACHE, now, exchange, holder, calls, written, lastSet,
          codec, net

vars == << build, config, db, CACHE, now, exchange, holder, calls, written, lastSet,
          codec, net >>

MaxClock == 2

NoExchange == [transport |-> "none", query |-> << >>, sent |-> None, outcome |-> "none",
               kind |-> "none", steps |-> << >>]

EmptyCache == [d \in {} |-> 0]

\* the tasks that use the cache side by side: two query tasks and the sweeper
QueryTasks == {"q1", "q2"}

Tasks == QueryTasks \cup {"sweeper"}

NoHolder == "none"

Idle == [pc |-> "idle", op |-> "none", domain |-> << >>, ip |-> << >>, ttl |-> 0,
         at |-> 0, ret |-> None, seen |-> None, expect |-> None]

\* codec: the function run on its own (a name conversion, the search of the
\* closest zone), its argument and its value
NoCodec == [op |-> "none", input |-> << >>, output |-> None]

\* the handler tasks in flight at a time
Slots == {"t1", "t2"}

\* max_packet_size: the length of the receive buffer of run_udp_server
BufSize == 23

NoHandled == [sent |-> None, outcome |-> "none", kind |-> "none", cache |-> EmptyCache,
              steps |-> << >>]

FreeTask == [pc |-> "free", transport |-> "none", src |-> "none", amt |-> 0,
             query |-> << >>, arrived |-> << >>, from |-> "none", late |-> FALSE,
             h |-> NoHandled, k |-> 0]

NoSend == [to |-> "none", bytes |-> << >>, transport |-> "none", from |-> "none",
           arrived |-> << >>]

NoNet == [buf |-> [i \in 1..BufSize |-> 0], tasks |-> [t \in Slots |-> FreeTask],
          udp |-> "running", tcp |-> "running", sweeper |-> "idle", due |-> 0,
          down |-> FALSE, errors |-> 0, failures |-> 0, last |-> NoSend]

Init ==
    /\ build \in {"lib", "bin"}
    /\ \E d \in Deployments(build) : config = d.config /\ db = d.db
    /\ CACHE = EmptyCache
    /\ now = 0
    /\ exchange = NoExchange
    /\ holder = NoHolder
    /\ calls = [t \in Tasks |-> Idle]
    /\ written = {}
    /\ lastSet = EmptyCache
    /\ codec = NoCodec
    /\ net = NoNet

\* the handler task of the running build
Handle(transport, query, up) ==
    CASE build = "lib" /\ transport = "udp" ->
             handle_udp_query(query, config, db, up, CACHE, now)
      [] build = "lib" /\ transport = "tcp" ->
             handle_tcp_connection(query, config, db, up, CACHE, now)
      [] build = "bin" /\ transport = "udp" ->
             main_handle_udp_query(query, config, db, up, CACHE, now)
      [] OTHER -> main_handle_tcp_connection(query, config, db, up, CACHE, now)

Contacts(h) == \E i \in 1..Len(h.steps) : h.steps[i][1] \in {"udp", "tcp"}

\* The task spawned for query runs to its end: the cache is as it left it and
\* the client holds what it sent.  What the upstreams do (up) is an input of the
\* exchanges that contact one; probe is the run with every upstream unreachable.
Serve(transport, query) ==
    \E probe \in {Handle(transport, query, Unreachable)} :
    \E up \in (IF Contacts(probe) THEN Upstreams(query) ELSE {Unreachable}) :
    \E h \in {IF up = Unreachable THEN probe ELSE Handle(transport, query, up)} :
       /\ CACHE' = h.cache
       /\ exchange' = [transport |-> transport, query |-> query, sent |-> h.sent,
                       outcome |-> h.outcome, kind |-> h.kind, steps |-> h.steps]

\* run_udp_server receives a datagram and the task spawned for it runs
UdpQuery ==
    /\ exchange = NoExchange
    /\ \E query \in Queries : Serve("udp", query)
    /\ UNCHANGED << build, config, db, now, holder, calls, written, lastSet,
                    codec, net >>

\* run_tcp_server accepts a connection and the task spawned for it runs
TcpQuery ==
    /\ exchange = NoExchange
    /\ \E query \in Queries : Serve("tcp", query)
    /\ UNCHANGED << build, config, db, now, holder, calls, written, lastSet,
                    codec, net >>

\* the client is done with the exchange (the TCP connection is closed)
Close ==
    /\ exchange # NoExchange
    /\ exchange' = NoExchange
    /\ UNCHANGED << build, config, db, CACHE, now, holder, calls, written, lastSet,
                    codec, net >>

\* the sweeper task: cache.cleanup()
Sweep ==
    /\ exchange = NoExchange
    /\ CACHE' = DnsCache_cleanup(CACHE, now)
    /\ UNCHANGED << build, config, db, now, exchange, holder, calls, written, lastSet,
                    codec, net >>

\* the wall clock advances by one tick
Tick ==
    /\ exchange = NoExchange
    /\ now < MaxClock
    /\ now' = now + 1
    /\ UNCHANGED << build, config, db, CACHE, exchange, holder, calls, written, lastSet,
                    codec, net >>

Next == UdpQuery \/ TcpQuery \/ Close \/ Sweep \/ Tick

Spec == Init /\ [][Next]_vars

(***************************************************************************)
(* The cache under concurrent use.  Every operation of DnsCache starts by  *)
(* locking the mutex (self.entries.lock()) and holds it to its end.  A set *)
(* stores its entry in two steps: while the store is under way the slot of *)
(* the domain holds the new address with the time-to-live of the entry it  *)
(* replaces.                                                               *)
(***************************************************************************)
CacheDomains == { << 97 >>, << 98 >> }

\* the answers stored: an address and its time-to-live in seconds
CacheAnswers == { << << 49 >>, 0 >>, << << 50 >>, 1 >> }

MaxSets == 2

\* a lock that is granted whoever holds it
lock_always(h) == TRUE

\* self.entries.lock(): granted when no task holds the mutex
lock_granted(h) == h = NoHolder

\* the slot of the domain while the entry is being stored
half_stored(cache, domain, ip, at) ==
    [ip |-> ip, inserted |-> at,
     ttl |-> IF domain \in DOMAIN cache THEN cache[domain].ttl ELSE 0]

\* DnsCache::get of the running build
CacheGet(cache, domain, clock) ==
    IF build = "lib" THEN DnsCache_get(cache, domain, clock)
    ELSE main_DnsCache_get(cache, domain, clock)

InitCache ==
    /\ Init
    /\ config.authoritative /\ ~db.broken /\ Len(config.dnskey_records) > 0

\* a query task, idle or done with its last operation, enters get(domain) and
\* takes the lock
GetLock(t, domain) ==
    /\ calls[t].pc \in {"idle", "done"}
    /\ lock_granted(holder)
    /\ holder' = t
    /\ calls' = [calls EXCEPT ![t] = [Idle EXCEPT !.pc = "get", !.op = "get",
                                                  !.domain = domain]]
    /\ UNCHANGED << build, config, db, CACHE, now, exchange, written, lastSet,
                    codec, net >>

\* get looks the domain up, returns, and the guard is dropped
GetRead(t) ==
    /\ calls[t].pc = "get"
    /\ \E r \in {CacheGet(CACHE, calls[t].domain, now)} :
          /\ CACHE' = r.cache
          /\ calls' = [calls EXCEPT ![t] =
                 [@ EXCEPT !.pc = "done", !.at = now, !.ret = r.ret,
                           !.seen = IF calls[t].domain \in DOMAIN CACHE
                                    THEN Some(CACHE[calls[t].domain]) ELSE None,
                           !.expect = IF calls[t].domain \in DOMAIN lastSet
                                      THEN Some(lastSet[calls[t].domain]) ELSE None]]
    /\ holder' = IF holder = t THEN NoHolder ELSE holder
    /\ UNCHANGED << build, config, db, now, exchange, written, lastSet,
                    codec, net >>

\* a query task enters set(domain, ip, ttl) and takes the lock
SetLock(t, domain, ip, ttl) ==
    /\ calls[t].pc \in {"idle", "done"}
    /\ Cardinality(written) < MaxSets
    /\ lock_granted(holder)
    /\ holder' = t
    /\ calls' = [calls EXCEPT ![t] = [Idle EXCEPT !.pc = "set", !.op = "set",
                                                  !.domain = domain, !.ip = ip,
                                                  !.ttl = ttl]]
    /\ UNCHANGED << build, config, db, CACHE, now, exchange, written, lastSet,
                    codec, net >>

\* set reads the clock for the entry and starts storing it
SetStore(t) ==
    /\ calls[t].pc = "set"
    /\ CACHE' = CacheInsert(CACHE, calls[t].domain,
                            half_stored(CACHE, calls[t].domain, calls[t].ip, now))
    /\ calls' = [calls EXCEPT ![t] = [@ EXCEPT !.pc = "storing", !.at = now]]
    /\ UNCHANGED << build, config, db, now, exchange, holder, written, lastSet,
                    codec, net >>

\* the entry is stored, set returns, and the guard is dropped
SetDone(t) ==
    /\ calls[t].pc = "storing"
    /\ \E c \in {DnsCache_set(CACHE, calls[t].domain, calls[t].ip, calls[t].ttl,
                              calls[t].at)} :
          /\ CACHE' = c
          /\ written' = written \cup {c[calls[t].domain]}
          /\ lastSet' = CacheInsert(lastSet, calls[t].domain, c[calls[t].domain])
    /\ calls' = [calls EXCEPT ![t] = [@ EXCEPT !.pc = "done"]]
    /\ holder' = IF holder = t THEN NoHolder ELSE holder
    /\ UNCHANGED << build, config, db, now, exchange, codec, net >>

\* the sweeper's interval fires: cleanup takes the lock
SweepLock ==
    /\ calls["sweeper"].pc \in {"idle", "done"}
    /\ lock_granted(holder)
    /\ holder' = "sweeper"
    /\ calls' = [calls EXCEPT !["sweeper"] = [Idle EXCEPT !.pc = "cleanup",
                                                          !.op = "cleanup"]]
    /\ UNCHANGED << build, config, db, CACHE, now, exchange, written, lastSet,
                    codec, net >>

\* cleanup retains the entries that are still valid and drops the guard
SweepRetain ==
    /\ calls["sweeper"].pc = "cleanup"
    /\ CACHE' = DnsCache_cleanup(CACHE, now)
    /\ calls' = [calls EXCEPT !["sweeper"] = [@ EXCEPT !.pc = "done", !.at = now]]
    /\ holder' = IF holder = "sweeper" THEN NoHolder ELSE holder
    /\ UNCHANGED << build, config, db, now, exchange, written, lastSet,
                    codec, net >>

\* the wall clock advances by one tick, whatever the tasks are doing
CacheTick ==
    /\ now < MaxClock
    /\ now' = now + 1
    /\ UNCHANGED << build, config, db, CACHE, exchange, holder, calls, written, lastSet,
                    codec, net >>

NextCache ==
    \/ \E t \in QueryTasks, domain \in CacheDomains : GetLock(t, domain)
    \/ \E t \in QueryTasks : GetRead(t)
    \/ \E t \in QueryTasks, domain \in CacheDomains, answer \in CacheAnswers :
          SetLock(t, domain, answer[1], answer[2])
    \/ \E t \in QueryTasks : SetStore(t)
    \/ \E t \in QueryTasks : SetDone(t)
    \/ SweepLock
    \/ SweepRetain
    \/ CacheTick

SpecCache == InitCache /\ [][NextCache]_vars

(***************************************************************************)
(* The name conversions on their own: a QNAME is decoded by the question   *)
(* parser of the running build, and the dotted name encoded again.         *)
(***************************************************************************)
LabelOctets == {97, 98, Dot}

LongestLabel == 63

\* labels of one and two octets, and one of the greatest length a label may have
LabelChoices ==
    { << c >> : c \in LabelOctets } \cup { << c, d >> : c, d \in LabelOctets }
        \cup { [i \in 1..LongestLabel |-> 97] }

\* names of no label (the root), one label and two labels
NameChoices ==
    { << >> } \cup { << l >> : l \in LabelChoices }
        \cup { << l, m >> : l, m \in LabelChoices }

\* the wire format of a name: each label behind its length, then a zero octet
RECURSIVE Wire(_)
Wire(labels) ==
    IF Len(labels) = 0 THEN << 0 >>
    ELSE << Len(labels[1]) >> \o labels[1] \o Wire(Tail(labels))

\* extract_domain of the running build on a question that holds the QNAME
DecodeQname(qname) ==
    IF build = "lib" THEN extract_domain(Request(0, 1, qname, 1, "none"))
    ELSE main_extract_domain(Request(0, 1, qname, 1, "none"))

InitCodec ==
    /\ Init
    /\ config.authoritative /\ ~db.broken /\ Len(config.dnskey_records) > 0

DecodeName ==
    /\ codec.op = "none"
    /\ \E labels \in NameChoices :
          codec' = [op |-> "decoded", input |-> Wire(labels),
                    output |-> DecodeQname(Wire(labels))]
    /\ UNCHANGED << build, config, db, CACHE, now, exchange, holder, calls, written,
                    lastSet, net >>

EncodeName ==
    /\ codec.op = "decoded"
    /\ codec.output.tag = "Some"
    /\ codec' = [op |-> "encoded", input |-> codec.input,
                 output |-> Some(encode_dns_name(codec.output.val))]
    /\ UNCHANGED << build, config, db, CACHE, now, exchange, holder, calls, written,
                    lastSet, net >>

NextCodec == DecodeName \/ EncodeName

SpecCodec == InitCodec /\ [][NextCodec]_vars

(***************************************************************************)
(* The name encoder on its own, applied to name texts as the store and the *)
(* configuration may hold them: dots anywhere, labels too long.            *)
(***************************************************************************)
MaxText == 4

\* a label of n octets
LabelOf(n) == [i \in 1..n |-> 97]

\* every text of up to MaxText octets, and texts with a label of the greatest
\* length and with labels one octet longer
NameTexts ==
    UNION { [1..n -> LabelOctets] : n \in 0..MaxText }
        \cup { LabelOf(LongestLabel), LabelOf(LongestLabel + 1),
               LabelOf(LongestLabel + 1) \o << Dot, Dot >>,
               << 98, Dot >> \o LabelOf(LongestLabel + 1) \o << Dot, 97 >>,
               LabelOf(LongestLabel) \o << Dot >> \o LabelOf(LongestLabel + 1) }

\* encode_dns_name is called on a name text
EncodeText ==
    /\ codec.op = "none"
    /\ \E name \in NameTexts :
          codec' = [op |-> "text", input |-> name,
                    output |-> Some(encode_dns_name(name))]
    /\ UNCHANGED << build, config, db, CACHE, now, exchange, holder, calls, written,
                    lastSet, net >>

\* the value is used and the next call may come
EncodeDone ==
    /\ codec.op = "text"
    /\ codec' = NoCodec
    /\ UNCHANGED << build, config, db, CACHE, now, exchange, holder, calls, written,
                    lastSet, net >>

NextEncoder == EncodeText \/ EncodeDone

SpecEncoder == InitCodec /\ [][NextEncoder]_vars

(***************************************************************************)
(* The answer encoders on their own: build_dns_response and                *)
(* build_generic_record_response of the running build are applied to the   *)
(* value texts a store row or a cache entry may hold.                      *)
(***************************************************************************)
MaxParts == 5

MaxTxt == 3

\* the pieces of an address text: "1", "255", "256", "x" and the empty piece
AddressParts == { << 49 >>, << 50, 53, 53 >>, << 50, 53, 54 >>, << 120 >>, << >> }

\* every text of up to MaxParts pieces joined by dots, and "+7.07.0.000"
AddressTexts ==
    { Join(p, Dot) : p \in UNION { [1..n -> AddressParts] : n \in 1..MaxParts } }
        \cup { << 43, 55, Dot, 48, 55, Dot, 48, Dot, 48, 48, 48 >> }

\* every text of up to MaxTxt octets of 'a' and '"', and texts of 255, 256 and
\* 257 octets, bare and in double quotes
TxtValues ==
    UNION { [1..n -> {97, Quote}] : n \in 0..MaxTxt }
        \cup { LabelOf(n) : n \in 255..257 }
        \cup { << Quote >> \o LabelOf(n) \o << Quote >> : n \in 255..257 }

\* the seconds of life of the rows
AnswerTtl == 60

\* the name asked about, a.x.y, as text
AnswerName == << 97, Dot, 120, Dot, 121 >>

\* build_dns_response is called with the address text of a row or an entry
AnswerA ==
    /\ codec.op = "none"
    /\ \E ip \in AddressTexts :
          codec' = [op |-> "A", input |-> ip,
                    output |-> IF build = "lib"
                               THEN build_dns_response(Request(0, 1, QA, 1, "none"),
                                                       ip, AnswerTtl, config)
                               ELSE main_build_dns_response(Request(0, 1, QA, 1, "none"),
                                                            ip, AnswerTtl, config)]
    /\ UNCHANGED << build, config, db, CACHE, now, exchange, holder, calls, written,
                    lastSet, net >>

\* build_generic_record_response is called with the value of a TXT row
AnswerTxt ==
    /\ codec.op = "none"
    /\ \E value \in TxtValues :
          codec' = [op |-> "TXT", input |-> value,
                    output |-> IF build = "lib"
                               THEN build_generic_record_response(
                                        Request(0, 1, QA, 16, "none"), value, AnswerTtl,
                                        AnswerName, 16, config)
                               ELSE main_build_generic_record_response(
                                        Request(0, 1, QA, 16, "none"), value, AnswerTtl,
                                        AnswerName, 16, config)]
    /\ UNCHANGED << build, config, db, CACHE, now, exchange, holder, calls, written,
                    lastSet, net >>

\* the response or the error is handed back and the next call may come
AnswerDone ==
    /\ codec.op \in {"A", "TXT"}
    /\ codec' = NoCodec
    /\ UNCHANGED << build, config, db, CACHE, now, exchange, holder, calls, written,
                    lastSet, net >>

NextAnswers == AnswerA \/ AnswerTxt \/ AnswerDone

SpecAnswers == InitCodec /\ [][NextAnswers]_vars

(***************************************************************************)
(* The search of the closest zone on its own: find_closest_parent_zone is  *)
(* applied to a name and a list of zones, in every order of the list.      *)
(***************************************************************************)
\* the names looked for: "", y, xy, x.y, ax.y, a.x.y, b.a.x.y, q.w
ZoneQueryNames ==
    { << >>, << 121 >>, << 120, 121 >>, << 120, 46, 121 >>, << 97, 120, 46, 121 >>,
      << 97, 46, 120, 46, 121 >>, << 98, 46, 97, 46, 120, 46, 121 >>,
      << 113, 46, 119 >> }

\* the names of the zones: y, x.y, a.x.y, w, ax.y
ZoneNames ==
    { << 121 >>, << 120, 46, 121 >>, << 97, 46, 120, 46, 121 >>, << 119 >>,
      << 97, 120, 46, 121 >> }

MaxZones == 3

ZoneNamed(name) == [name |-> name, ns_records |-> << >>, soa_record |-> None]

\* the lists of up to MaxZones zones of distinct names, in every order
ZoneLists ==
    { zs \in UNION { [1..n -> { ZoneNamed(z) : z \in ZoneNames }] : n \in 0..MaxZones } :
          \A i, j \in 1..Len(zs) : i # j => zs[i] # zs[j] }

FindZone ==
    /\ codec.op = "none"
    /\ \E name \in ZoneQueryNames, zones \in ZoneLists :
          codec' = [op |-> "closest", input |-> << name, zones >>,
                    output |-> find_closest_parent_zone(name, zones)]
    /\ UNCHANGED << build, config, db, CACHE, now, exchange, holder, calls, written,
                    lastSet, net >>

ZoneFound ==
    /\ codec.op = "closest"
    /\ codec' = NoCodec
    /\ UNCHANGED << build, config, db, CACHE, now, exchange, holder, calls, written,
                    lastSet, net >>

NextZones == FindZone \/ ZoneFound

SpecZones == InitCodec /\ [][NextZones]_vars

(***************************************************************************)
(* The transport loops and the tasks they spawn, side by side.             *)
(* run_udp_server receives every datagram in one buffer, copies the octets *)
(* received into a vector and spawns handle_udp_query on the vector and    *)
(* the source address; run_tcp_server spawns handle_tcp_connection on      *)
(* every stream accepted.  A task runs the steps of its handler one at a   *)
(* time: an operation of the cache under the mutex of the cache, a call of *)
(* the store, an exchange with an upstream, and at last the send.  An      *)
(* error of recv_from or of accept is logged and the loop goes on.  The    *)
(* clock stands still here, every upstream is unreachable.                 *)
(***************************************************************************)
Sources == {"c1", "c2"}

\* a datagram that has lost the last octet of its question
Clipped == SubSeq(Request(0, 1, QA, 1, "none"), 1, 22)

\* the datagrams that arrive and where each comes from
UdpArrivals ==
    { << "c1", Request(0, 1, QA, 1, "none") >>,
      << "c2", Request(0, 1, QXY, 2, "none") >>,
      << "c2", Clipped >> }

\* the queries on the streams accepted and where each comes from
TcpArrivals == { << "c1", Request(0, 1, QW, 1, "none") >> }

MaxErrors == 1

\* socket.recv_from(&mut buf): the datagram overwrites the head of the buffer
recv_from(buf, datagram) ==
    [i \in 1..Len(buf) |-> IF i <= Len(datagram) THEN datagram[i] ELSE buf[i]]

\* the octets a task reads as its query at the place of buf[..amt]
query_in_buffer(task, buf) == SubSeq(buf, 1, task.amt)

\* the octets a task reads as its query: the vector moved into it
query_of(task, buf) == task.query

\* a loop that ends at an error of recv_from or of accept
stop_on_error(loop) == "stopped"

\* Err(e) => error!(...): the loop goes on to its next turn
on_error(loop) == loop

\* a guard that is never dropped
guard_kept(h, t) == h

\* the MutexGuard goes out of scope at the end of the operation of the cache
guard_dropped(h, t) == IF h = t THEN NoHolder ELSE h

Failed(h) == h.outcome \in {"panic", "err"}

\* what a task does at step k of its handler
Phase(h, k) ==
    IF k > Len(h.steps) THEN (IF h.sent.tag = "Some" THEN "send" ELSE "end")
    ELSE IF h.steps[k][1] = "cache" THEN "cache"
    ELSE IF h.steps[k][1] = "store" THEN "store"
    ELSE "upstream"

\* the cache once a task has stored what its handler set
Stored(cache, h) ==
    [d \in DOMAIN cache \cup DOMAIN h.cache |->
        IF d \in DOMAIN h.cache THEN h.cache[d] ELSE cache[d]]

\* a task spawned after an error of a loop and after the failure of a task
Late == net.errors > 0 /\ net.failures > 0

\* the slot of the next task spawned, "none" when every slot is taken
FreeSlot ==
    IF net.tasks["t1"].pc = "free" THEN "t1"
    ELSE IF net.tasks["t2"].pc = "free" THEN "t2"
    ELSE "none"

Spawn(t, transport, src, octets, buf) ==
    net' = [net EXCEPT !.buf = buf,
                       !.last = NoSend,
                       !.tasks[t] = [FreeTask EXCEPT !.pc = "spawned",
                                                     !.transport = transport,
                                                     !.src = src,
                                                     !.amt = Len(octets),
                                                     !.query = octets,
                                                     !.arrived = octets,
                                                     !.from = src,
                                                     !.late = Late]]

InitServer ==
    /\ Init
    /\ config.authoritative /\ ~db.broken /\ Len(config.dnskey_records) > 0

\* run_udp_server: recv_from returns a datagram, its octets are copied and a
\* task is spawned
UdpRecv ==
    /\ net.udp = "running"
    /\ \E t \in Slots, a \in UdpArrivals :
          /\ t = FreeSlot
          /\ Spawn(t, "udp", a[1], a[2], recv_from(net.buf, a[2]))
    /\ UNCHANGED << build, config, db, CACHE, now, exchange, holder, calls, written,
                    lastSet, codec >>

\* run_udp_server: recv_from returns an error
UdpRecvError ==
    /\ net.udp = "running"
    /\ net.errors < MaxErrors
    /\ net' = [net EXCEPT !.udp = on_error(net.udp), !.errors = @ + 1,
                          !.last = NoSend]
    /\ UNCHANGED << build, config, db, CACHE, now, exchange, holder, calls, written,
                    lastSet, codec >>

\* run_tcp_server: accept returns a stream and a task is spawned
TcpAccept ==
    /\ net.tcp = "running"
    /\ \E t \in Slots, a \in TcpArrivals :
          /\ t = FreeSlot
          /\ Spawn(t, "tcp", a[1], a[2], net.buf)
    /\ UNCHANGED << build, config, db, CACHE, now, exchange, holder, calls, written,
                    lastSet, codec >>

\* run_tcp_server: accept returns an error
TcpAcceptError ==
    /\ net.tcp = "running"
    /\ net.errors < MaxErrors
    /\ net' = [net EXCEPT !.tcp = on_error(net.tcp), !.errors = @ + 1,
                          !.last = NoSend]
    /\ UNCHANGED << build, config, db, CACHE, now, exchange, holder, calls, written,
                    lastSet, codec >>

\* a task moves from step k of its handler (from its start when k = 0) to
\* step k + 1: it drops the guard of the operation of the cache it leaves,
\* stores what a set stores, and locks the mutex when the step it enters is an
\* operation of the cache
Advance(t, h, k) ==
    \E free \in {IF k >= 1 /\ Phase(h, k) = "cache" THEN guard_dropped(holder, t)
                 ELSE holder} :
       /\ Phase(h, k + 1) = "cache" => lock_granted(free)
       /\ holder' = IF Phase(h, k + 1) = "cache" THEN t ELSE free
       /\ CACHE' = IF k >= 1 /\ h.steps[k] = << "cache", "set" >>
                   THEN Stored(CACHE, h) ELSE CACHE
       /\ net' = [net EXCEPT !.tasks[t].k = k + 1,
                             !.tasks[t].pc = Phase(h, k + 1),
                             !.last = NoSend]

\* the task spawned is polled for the first time: it starts on the octets of
\* its query
TaskStart(t) ==
    /\ net.tasks[t].pc = "spawned"
    /\ net' = [net EXCEPT !.last = NoSend,
                          !.tasks[t].pc = "started",
                          !.tasks[t].h = Handle(net.tasks[t].transport,
                                                query_of(net.tasks[t], net.buf),
                                                Unreachable)]
    /\ UNCHANGED << build, config, db, CACHE, now, exchange, holder, calls, written,
                    lastSet, codec >>

\* the task enters the first step of its handler, or ends a step and enters
\* the next
TaskStep(t) ==
    /\ net.tasks[t].pc \in {"started", "cache", "store", "upstream"}
    /\ Advance(t, net.tasks[t].h, net.tasks[t].k)
    /\ UNCHANGED << build, config, db, now, exchange, calls, written, lastSet, codec >>

\* socket.send_to(&response, src), stream.write_all(&response): the task sends
\* its response and ends
TaskSend(t) ==
    /\ net.tasks[t].pc = "send"
    /\ net' = [net EXCEPT !.tasks[t] = FreeTask,
                          !.failures = IF Failed(net.tasks[t].h) THEN 1 ELSE @,
                          !.last = [to |-> net.tasks[t].src,
                                    bytes |-> net.tasks[t].h.sent.val,
                                    transport |-> net.tasks[t].transport,
                                    from |-> net.tasks[t].from,
                                    arrived |-> net.tasks[t].arrived]]
    /\ UNCHANGED << build, config, db, CACHE, now, exchange, holder, calls, written,
                    lastSet, codec >>

\* the task ends and sends nothing: it has dropped its query, or it has failed
TaskEnd(t) ==
    /\ net.tasks[t].pc = "end"
    /\ net' = [net EXCEPT !.tasks[t] = FreeTask,
                          !.failures = IF Failed(net.tasks[t].h) THEN 1 ELSE @,
                          !.last = NoSend]
    /\ UNCHANGED << build, config, db, CACHE, now, exchange, holder, calls, written,
                    lastSet, codec >>

\* the period of the sweeper in ticks of the clock
interval(period) == period * TicksPerSec

\* main: the interval of the sweeper task of the binary fires, at its start
\* and then once every CACHE_CLEANUP_INTERVAL, and cleanup locks the mutex; a
\* sweeper that main has aborted is polled no more
CleanupLock ==
    /\ build = "bin"
    /\ net.sweeper = "idle"
    /\ ~net.down
    /\ now >= net.due
    /\ lock_granted(holder)
    /\ holder' = "sweeper"
    /\ net' = [net EXCEPT !.sweeper = "cleanup", !.last = NoSend,
                          !.due = @ + interval(CACHE_CLEANUP_INTERVAL)]
    /\ UNCHANGED << build, config, db, CACHE, now, exchange, calls, written, lastSet,
                    codec >>

\* cleanup retains the entries that are still valid and drops the guard; the
\* sweeper waits for the next tick of its interval
CleanupRetain ==
    /\ net.sweeper = "cleanup"
    /\ CACHE' = DnsCache_cleanup(CACHE, now)
    /\ holder' = guard_dropped(holder, "sweeper")
    /\ net' = [net EXCEPT !.sweeper = "idle", !.last = NoSend]
    /\ UNCHANGED << build, config, db, now, exchange, calls, written, lastSet, codec >>

NextServer ==
    \/ UdpRecv
    \/ UdpRecvError
    \/ TcpAccept
    \/ TcpAcceptError
    \/ \E t \in Slots : TaskStart(t)
    \/ \E t \in Slots : TaskStep(t)
    \/ \E t \in Slots : TaskSend(t)
    \/ \E t \in Slots : TaskEnd(t)
    \/ CleanupLock
    \/ CleanupRetain

SpecServer == InitServer /\ [][NextServer]_vars

\* The runtime polls every task spawned, a task that waits for the mutex of
\* the cache gets it in the end, and cleanup runs to its end.  The first poll
\* of a task is enabled exactly while the task is spawned: its weak fairness
\* is written with that state predicate at the place of ENABLED.
SpecServerFair ==
    /\ SpecServer
    /\ \A t \in Slots :
          /\ []<>(net.tasks[t].pc # "spawned") \/ []<><<TaskStart(t)>>_vars
          /\ SF_vars(TaskStep(t))
          /\ WF_vars(TaskSend(t) \/ TaskEnd(t))
    /\ WF_vars(CleanupRetain)

(***************************************************************************)
(* The sweeper of the binary over the hours.  main spawns a task that      *)
(* waits for the tick of an interval of CACHE_CLEANUP_INTERVAL and then    *)
(* runs cleanup, for ever; the first tick of the interval is immediate.    *)
(* Handlers store entries meanwhile.  When the shutdown signal arrives the *)
(* arm of select! aborts the sweeper: the task is dropped at its await, a  *)
(* cleanup under way runs to its end.  The clock is looked at in the first *)
(* ticks of every period.                                                  *)
(***************************************************************************)
Periods == 2

Window == 3

Instants ==
    { k * interval(CACHE_CLEANUP_INTERVAL) + i : k \in 0..Periods, i \in 0..Window }

InitSweeper ==
    /\ Init
    /\ build = "bin"
    /\ config.authoritative /\ ~db.broken /\ Len(config.dnskey_records) > 0

\* a handler stores the answer of the store for a name
StoreEntry ==
    /\ ~net.down
    /\ lock_granted(holder)
    /\ \E d \in CacheDomains, a \in CacheAnswers :
          /\ CACHE' = DnsCache_set(CACHE, d, a[1], a[2], now)
          /\ lastSet' = DnsCache_set(lastSet, d, a[1], a[2], now)
    /\ UNCHANGED << build, config, db, now, exchange, holder, calls, written, codec,
                    net >>

\* time passes to a later instant
TimePasses ==
    /\ \E t \in Instants : t > now /\ now' = t
    /\ UNCHANGED << build, config, db, CACHE, exchange, holder, calls, written, lastSet,
                    codec, net >>

\* main: ctrl_c returns and the arm of select! aborts the sweeper
Shutdown ==
    /\ ~net.down
    /\ net' = [net EXCEPT !.down = TRUE]
    /\ UNCHANGED << build, config, db, CACHE, now, exchange, holder, calls, written,
                    lastSet, codec >>

NextSweeper == CleanupLock \/ CleanupRetain \/ StoreEntry \/ TimePasses \/ Shutdown

SpecSweeper == InitSweeper /\ [][NextSweeper]_vars

\* time passes, the runtime polls the sweeper when its interval has fired and
\* cleanup runs to its end
SpecSweeperFair ==
    /\ SpecSweeper
    /\ WF_vars(TimePasses)
    /\ WF_vars(CleanupLock)
    /\ WF_vars(CleanupRetain)

(***************************************************************************)
(* The server over a store that holds an A record and an AAAA record for   *)
(* one name, asked address queries one after the other.                    *)
(***************************************************************************)
QC == << 1, 99, 1, 120, 1, 121, 0 >>

\* c.x.y A 192.0.2.3 and c.x.y AAAA 2001:db8::3, behind the rows of b.x.y
BothRows ==
    SubSeq(Rows, 1, 2)
        \o << Row(<< 99, 46, 120, 46, 121 >>, "A", << 49, 57, 50, 46, 48, 46, 50, 46, 51 >>, 1),
              Row(<< 99, 46, 120, 46, 121 >>, "AAAA",
                  << 50, 48, 48, 49, 58, 100, 98, 56, 58, 58, 51 >>, 1) >>
        \o SubSeq(Rows, 3, Len(Rows))

AddressQueries ==
    { Request(0, 1, q[1], q[2], e) :
         q \in { << QC, 1 >>, << QC, 28 >>, << QA, 1 >>, << QA, 28 >> },
         e \in {"none", "do"} }

InitHistory ==
    /\ build \in {"lib", "bin"}
    /\ \E authoritative \in BOOLEAN :
          config = ServerConfig(build, authoritative, TRUE, TRUE)
    /\ db = [broken |-> FALSE, rows |-> BothRows]
    /\ CACHE = EmptyCache
    /\ now = 0
    /\ exchange = NoExchange
    /\ holder = NoHolder
    /\ calls = [t \in Tasks |-> Idle]
    /\ written = {}
    /\ lastSet = EmptyCache
    /\ codec = NoCodec
    /\ net = NoNet

\* a transport loop receives an address query and the task spawned for it runs
AddressQuery ==
    /\ exchange = NoExchange
    /\ \E transport \in {"udp", "tcp"}, query \in AddressQueries :
          Serve(transport, query)
    /\ UNCHANGED << build, config, db, now, holder, calls, written, lastSet,
                    codec, net >>

NextHistory == AddressQuery \/ Close \/ Tick

SpecHistory == InitHistory /\ [][NextHistory]_vars

(***************************************************************************)
(* What a client observes of the exchange it has open                      *)
(***************************************************************************)
Answered == exchange.sent.tag = "Some"

\* the DNS message received: the datagram, or the stream payload behind its
\* two-octet length
Message ==
    IF exchange.transport = "tcp"
    THEN SubSeq(exchange.sent.val, 3, Len(exchange.sent.val))
    ELSE exchange.sent.val

Asked == exchange.query

PositiveKinds == {"dnskey", "ds", "cached", "soa", "ns", "generic", "address"}

NxdomainKinds == {"nxdomain", "nxdomain_fallback"}

\* the response was built by the server itself, not relayed from an upstream
Local == Answered /\ exchange.kind \in PositiveKinds \cup NxdomainKinds \cup {"notimp"}

Opcode(m) == BitAnd(B(m, 2), 120) \div 8

QRbit(m) == BitAnd(B(m, 2), 128) # 0

AAbit(m) == BitAnd(B(m, 2), 4) # 0

RDbit(m) == BitAnd(B(m, 2), 1) # 0

RAbit(m) == BitAnd(B(m, 3), 128) # 0

Rcode(m) == BitAnd(B(m, 3), 15)

\* the question parser of the running build accepts the question of m
Accepted(m) ==
    IF build = "lib" THEN extract_domain(m).tag = "Some"
    ELSE main_extract_domain(m).tag = "Some"

\* the end of the question section of m: QNAME label by label, QTYPE, QCLASS
QuestionEnd(m) == skip_qname(m, 12) + 4

\* a zone of the server covers the question name of m
Covered(m) ==
    /\ extract_domain(m).tag = "Some"
    /\ find_closest_parent_zone(extract_domain(m).val,
                                get_authoritative_zones(db, config)).tag = "Some"

\* m ends with an OPT record without options
EndsWithOpt(m) ==
    /\ Len(m) >= 12 + 11
    /\ Slice(m, Len(m) - 11, Len(m) - 8) = << 0, 0, 41 >>
    /\ Slice(m, Len(m) - 2, Len(m)) = << 0, 0 >>

OptPayload(m) == U16At(m, Len(m) - 8)

OptDo(m) == BitAnd(B(m, Len(m) - 4), 128) # 0

CacheSetDone == \E i \in 1..Len(exchange.steps) : exchange.steps[i] = << "cache", "set" >>

(***************************************************************************)
(* Properties of the responses                                             *)
(***************************************************************************)
\* C1: every response the server emits on UDP or TCP, relayed replies included,
\* starts with the two octets the request starts with (transaction id echo).
C1_IdEcho ==
    Answered => Len(Message) >= 2 /\ Slice(Message, 0, 2) = Slice(Asked, 0, 2)

\* C2, for the responses the server builds itself: when the question parser
\* accepts the QNAME of the request, the response has QR = 1 and its question
\* section, QNAME through QCLASS, is octet for octet that of the request.
C2_QuestionEcho ==
    Local /\ Accepted(Asked) =>
        /\ QRbit(Message)
        /\ Len(Message) >= QuestionEnd(Asked)
        /\ Slice(Message, 12, QuestionEnd(Asked)) = Slice(Asked, 12, QuestionEnd(Asked))

\* C3: in every response the server builds itself, AA is set exactly when the
\* server is configured authoritative and, for an NXDOMAIN, a zone covers the
\* question name.
C3_AuthoritativeFlag ==
    Local =>
        (AAbit(Message) <=>
            /\ config.authoritative
            /\ exchange.kind \in NxdomainKinds => Covered(Asked))

\* C4: a positive answer to an OPCODE 0 query has RCODE 0, an NXDOMAIN has RCODE
\* 3, every reply to a query with another OPCODE has RCODE 4, and no response
\* the server builds itself carries any other RCODE.
C4_Rcodes ==
    /\ Answered /\ Opcode(Asked) # 0 => Rcode(Message) = 4
    /\ Local /\ Opcode(Asked) = 0 /\ exchange.kind \in PositiveKinds => Rcode(Message) = 0
    /\ Local /\ Opcode(Asked) = 0 /\ exchange.kind \in NxdomainKinds => Rcode(Message) = 3
    /\ Local => Rcode(Message) \in {0, 3, 4}

\* an authoritative NXDOMAIN with RCODE 3 has been sent over TCP
C4_Witness ==
    /\ Local /\ exchange.transport = "tcp" /\ exchange.kind = "nxdomain"
    /\ AAbit(Message) /\ Rcode(Message) = 3

\* C5: a response the server builds for a request that carries an OPT record
\* carries an OPT record with the payload size and the DO bit of the request;
\* a response to a request without OPT carries none.
C5_OptEcho ==
    Local =>
        IF EndsWithOpt(Asked)
        THEN /\ EndsWithOpt(Message)
             /\ OptPayload(Message) = OptPayload(Asked)
             /\ OptDo(Message) = OptDo(Asked)
        ELSE ~EndsWithOpt(Message)

\* C6: every response the server builds itself has the RD bit of the request
\* and RA = 1.
C6_RdRa == Local => RDbit(Message) = RDbit(Asked) /\ RAbit(Message)

\* C10: every entry of the cache holds the value of an A record of the store,
\* and handling an AAAA query installs or overwrites no entry.
C10_OnlyA ==
    /\ \A d \in DOMAIN CACHE :
          \E i \in 1..Len(db.rows) :
              /\ db.rows[i].domain = d /\ db.rows[i].record_type = "A"
              /\ db.rows[i].value = CACHE[d].ip
    /\ exchange # NoExchange /\ extract_query_type(Asked) = Some(28) => ~CacheSetDone

(***************************************************************************)
(* Properties of the cache                                                 *)
(***************************************************************************)
\* ticks from the clock reading an entry was stored with to the time at
Elapsed(entry, at) == at - entry.inserted

GetDone(t) == calls[t].pc = "done" /\ calls[t].op = "get"

\* C7: a get of d made before ttl has elapsed since the last set(d, ip, ttl)
\* returns Some((ip, ttl)), whatever sets on other domains, gets and sweeps ran
\* in between.
C7_GetAfterSet ==
    \A t \in QueryTasks :
        GetDone(t) /\ calls[t].expect.tag = "Some"
            /\ Elapsed(calls[t].expect.val, calls[t].at)
                   < calls[t].expect.val.ttl * TicksPerSec
        => calls[t].ret = Some(<< calls[t].expect.val.ip, calls[t].expect.val.ttl >>)

\* a get returned the entry stored half a second or more before, after a sweep
\* that ran since the entry was stored
C7_Witness ==
    \E t \in QueryTasks :
        /\ GetDone(t) /\ calls[t].expect.tag = "Some" /\ calls[t].ret.tag = "Some"
        /\ Elapsed(calls[t].expect.val, calls[t].at) >= 1
        /\ Elapsed(calls[t].expect.val, calls[t].at)
               < calls[t].expect.val.ttl * TicksPerSec
        /\ calls["sweeper"].pc = "done"
        /\ calls["sweeper"].at >= calls[t].expect.val.inserted
        /\ calls["sweeper"].at <= calls[t].at

\* C8: once more than ttl has elapsed since set(d, ip, ttl), get(d) returns
\* none, and after a sweep no such entry is left in the map.
C8_Expiry ==
    /\ \A t \in QueryTasks :
          GetDone(t) /\ calls[t].expect.tag = "Some"
              /\ Elapsed(calls[t].expect.val, calls[t].at)
                     > calls[t].expect.val.ttl * TicksPerSec
          => calls[t].ret = None
    /\ calls["sweeper"].pc = "done" =>
          \A d \in DOMAIN CACHE :
              ~(Elapsed(CACHE[d], calls["sweeper"].at) > CACHE[d].ttl * TicksPerSec)

\* C9: every get finds, for its domain, no entry or an entry exactly as one set
\* stored it, however the operations of the tasks interleave.
C9_WholeEntries ==
    \A t \in QueryTasks :
        GetDone(t) => calls[t].seen.tag = "None" \/ calls[t].seen.val \in written

\* a get found an entry, and the other query task is now storing to that domain
C9_Witness ==
    \E t \in QueryTasks, u \in QueryTasks :
        /\ t # u
        /\ GetDone(t) /\ calls[t].seen.tag = "Some"
        /\ calls[u].pc = "storing" /\ calls[u].domain = calls[t].domain

(***************************************************************************)
(* Properties of the handlers                                              *)
(***************************************************************************)
Served == exchange # NoExchange

\* C11: handling a proper prefix of a well-formed query packet, of any length
\* from 0 on, with or without OPT, on either transport, ends without an index
\* or slice panic.
C11_NoPanic == Served /\ Asked \in Truncated => exchange.outcome # "panic"

\* C13: on both transports a query of at least 12 octets whose OPCODE is not 0
\* gets one response with RCODE 4 and QR = 1 that carries the OPCODE and the RD
\* bit of the request, and its OPT if it has one; neither the cache nor the
\* store nor an upstream is accessed for it.
C13_NotImplemented ==
    Served /\ Len(Asked) >= 12 /\ Opcode(Asked) # 0 =>
        /\ Answered
        /\ Len(Message) >= 12
        /\ Rcode(Message) = 4 /\ QRbit(Message)
        /\ Opcode(Message) = Opcode(Asked) /\ RDbit(Message) = RDbit(Asked)
        /\ EndsWithOpt(Asked) =>
              /\ EndsWithOpt(Message)
              /\ OptPayload(Message) = OptPayload(Asked)
              /\ OptDo(Message) = OptDo(Asked)
        /\ exchange.steps = << >>

\* C14: a query of fewer than 12 octets is dropped on both transports: handling
\* it sends nothing, leaves the cache as it was and accesses neither the cache
\* nor the store nor an upstream.
C14_ShortDropped ==
    [][exchange = NoExchange /\ exchange' # NoExchange /\ Len(exchange'.query) < 12 =>
          /\ exchange'.sent = None
          /\ exchange'.outcome = "ok"
          /\ exchange'.steps = << >>
          /\ CACHE' = CACHE]_vars

\* an 11-octet message that came over TCP has been handled and nothing was sent
C14_Witness ==
    Served /\ exchange.transport = "tcp" /\ Len(Asked) = 11 /\ ~Answered

\* the name the question parser of the running build extracts from m
QuestionName(m) ==
    IF build = "lib" THEN extract_domain(m).val ELSE main_extract_domain(m).val

\* m is an OPCODE 0 query of one of the given types whose question is complete
\* and whose name the parser accepts
Asks(m, types) ==
    /\ Len(m) >= 12 /\ Opcode(m) = 0 /\ Accepted(m)
    /\ Len(m) >= QuestionEnd(m)
    /\ extract_query_type(m).tag = "Some" /\ extract_query_type(m).val \in types

\* the cache holds a valid entry for the name m asks about
CacheHolds(m) ==
    /\ QuestionName(m) \in DOMAIN CACHE
    /\ entry_valid(CACHE[QuestionName(m)], now)

\* the A answer of the running build to m from a cache entry
AnswerFrom(m, entry) ==
    IF build = "lib" THEN build_dns_response(m, entry.ip, entry.ttl, config)
    ELSE main_build_dns_response(m, entry.ip, entry.ttl, config)

\* the message of the exchange that a step opens
NextMessage ==
    IF exchange'.transport = "tcp"
    THEN SubSeq(exchange'.sent.val, 3, Len(exchange'.sent.val))
    ELSE exchange'.sent.val

StepsOn(steps, what) == { i \in 1..Len(steps) : steps[i][1] = what }

\* C15: when the cache holds a valid entry for the name of an A or AAAA query,
\* the response is the A answer built from the cached address and the only
\* access made is the cache probe; the probe is the first access of every A or
\* AAAA query, and a DS or DNSKEY query makes none.
C15_CacheHit ==
    [][exchange = NoExchange /\ exchange' # NoExchange =>
          /\ Asks(exchange'.query, {1, 28}) /\ CacheHolds(exchange'.query) =>
                /\ exchange'.sent.tag = "Some"
                /\ Ok(NextMessage) = AnswerFrom(exchange'.query,
                                             CACHE[QuestionName(exchange'.query)])
                /\ exchange'.steps = << << "cache", "get" >> >>
          /\ Asks(exchange'.query, {1, 28}) =>
                /\ Len(exchange'.steps) > 0
                /\ exchange'.steps[1] = << "cache", "get" >>
          /\ Asks(exchange'.query, {43, 48}) => StepsOn(exchange'.steps, "cache") = {}
      ]_vars

\* the position behind the owner name that starts at pos: a pointer or labels
AfterOwner(m, pos) ==
    IF B(m, pos) >= 192 THEN pos + 2 ELSE skip_qname(m, pos)

\* the types of the resource records of m from pos to the end of m
RECURSIVE RecordTypes(_, _)
RecordTypes(m, pos) ==
    IF pos >= Len(m) THEN << >>
    ELSE LET p == AfterOwner(m, pos) IN
         IF p < 0 \/ p + 10 > Len(m) THEN << 0 >>
         ELSE << U16At(m, p) >> \o RecordTypes(m, p + 10 + U16At(m, p + 8))

\* the types of the records of m that are not OPT
Records(m) == SelectSeq(RecordTypes(m, QuestionEnd(m)), LAMBDA t : t # 41)

AllTypes == 0..65535

\* the query types that go through the cache and the store (DS and DNSKEY are
\* answered from the configuration)
StoreTypes == AllTypes \ {43, 48}

\* the record types the store holds for the name m asks about
StoredTypes(m) ==
    LET records == lookup_records(db, QuestionName(m))
    IN  { records[i].record_type : i \in 1..Len(records) }

\* the store has no record that answers m: none of the type asked for and, for
\* an A or AAAA query, none of the address types the build falls back to
NoMatch(m) ==
    LET qt == extract_query_type(m).val IN
    /\ requested_type_of(qt) \notin StoredTypes(m)
    /\ qt \in {1, 28} =>
          StoredTypes(m) \cap (IF build = "lib" THEN {"A"} ELSE {"A", "AAAA"}) = {}

Contacted(steps) == StepsOn(steps, "udp") \cup StepsOn(steps, "tcp")

UpstreamReplies(query) == { UpstreamAnswer(query), StrayReply, << 190, 239 >> }

\* reply with the AA bit (0x04 of the first flags octet) cleared
WithoutAA(reply) ==
    IF Len(reply) >= 3 /\ BitAnd(reply[3], 4) # 0
    THEN [reply EXCEPT ![3] = reply[3] - 4]
    ELSE reply

\* C17: a relayed response is the upstream's reply with the AA bit cleared and
\* every other octet as it came; it never has AA = 1.
C17_RelayClearsAA ==
    Served /\ Answered /\ exchange.kind = "relay" =>
        /\ \E reply \in UpstreamReplies(Asked) : Message = WithoutAA(reply)
        /\ Len(Message) >= 3 => ~AAbit(Message)

\* the upstreams contacted over proto, in the order of the contacts
Pass(steps, proto) ==
    LET on == SelectSeq(steps, LAMBDA s : s[1] = proto)
    IN  [i \in 1..Len(on) |-> on[i][2]]

IsPrefix(s, t) == Len(s) <= Len(t) /\ s = SubSeq(t, 1, Len(s))

\* every contact over UDP comes before every contact over TCP
UdpFirst(steps) ==
    \A i, j \in 1..Len(steps) : steps[i][1] = "udp" /\ steps[j][1] = "tcp" => i < j

\* the contacts of one pass follow the configured order and go past an
\* upstream only when it failed
InOrder(pass, answers, forwarders) ==
    /\ IsPrefix(pass, forwarders)
    /\ \A k \in 1..Len(pass) : \A j \in 1..(k - 1) : answers[pass[j]] = Err

AllFailed(answers, forwarders) ==
    \A k \in 1..Len(forwarders) : answers[forwarders[k]] = Err

\* what C18 asks of the exchange h of a handler run against the upstreams up
TwoPasses(h, up, forwarders) ==
    LET u == Pass(h.steps, "udp")
        t == Pass(h.steps, "tcp")
    IN  /\ UdpFirst(h.steps)
        /\ InOrder(u, up.udp, forwarders)
        /\ InOrder(t, up.tcp, forwarders)
        /\ Len(t) > 0 => AllFailed(up.udp, forwarders)
        /\ h.kind = "relay" /\ h.outcome = "ok" =>
               \/ Len(t) = 0 /\ h.sent.tag = "Some" /\ up.udp[u[Len(u)]].tag = "Some"
               \/ Len(t) > 0 /\ h.sent.tag = "Some" /\ up.tcp[t[Len(t)]].tag = "Some"
        /\ h.kind # "relay" =>
               AllFailed(up.udp, forwarders) /\ AllFailed(up.tcp, forwarders)

\* C18: the forwarder tries the upstreams in configured order over UDP, then,
\* only when all of them failed, in configured order over TCP; it goes to the
\* next upstream only after a failure, stops at the first reply and gives no
\* result only when every upstream failed over both protocols.
C18_TwoPasses ==
    [][exchange = NoExchange /\ exchange' # NoExchange /\ Contacts(exchange') =>
           \A up \in Upstreams(exchange'.query) :
               \A h \in {Handle(exchange'.transport, exchange'.query, up)} :
                   h.sent = exchange'.sent /\ h.steps = exchange'.steps
                       /\ h.outcome = exchange'.outcome =>
                   TwoPasses(h, up, config.forwarders)]_vars

\* upstreams were contacted and none of them produced a reply
ForwardingFailed ==
    Served /\ Contacts(exchange) /\ exchange.kind # "relay" /\ exchange.outcome # "hang"

\* C19: when every upstream has failed the client receives one response, an
\* NXDOMAIN, with AA = 1 only if the server is configured authoritative and a
\* zone covers the name asked for.
C19_FallbackNxdomain ==
    ForwardingFailed =>
        /\ Answered
        /\ Len(Message) >= 12
        /\ Rcode(Message) = 3
        /\ AAbit(Message) => config.authoritative /\ Covered(Asked)

\* the Result of generate_dns_response for m in the running build, were no
\* upstream to answer
Generated(m) ==
    IF build = "lib"
    THEN generate_dns_response(m, extract_domain(m).val, config, db, Unreachable,
                               CACHE, now)
    ELSE main_generate_dns_response(m, main_extract_domain(m).val, config, db,
                                    Unreachable, CACHE, now)

\* m asks for a record the store holds, and encoding that record fails
EncodingFails(m) ==
    /\ Asks(m, StoreTypes)
    /\ \E g \in {Generated(m)} :
           g.ret = Err /\ g.kind \in {"soa", "ns", "generic", "address"}

\* C20: when the matched store record cannot be encoded the client receives an
\* NXDOMAIN response, over UDP and over TCP, and no upstream is contacted.
C20_EncodingFailure ==
    [][exchange = NoExchange /\ exchange' # NoExchange
           /\ EncodingFails(exchange'.query) =>
           /\ exchange'.sent.tag = "Some"
           /\ Len(NextMessage) >= 12
           /\ Rcode(NextMessage) = 3
           /\ Contacted(exchange'.steps) = {}]_vars

(***************************************************************************)
(* Properties of the store adapter and of the sections of the responses    *)
(***************************************************************************)
\* C21: with a failing store, lookup_records yields the empty list, and a query
\* whose answer would come from the store ends in NXDOMAIN or in forwarding,
\* not in an error or a drop.
C21_StoreFailure ==
    Served /\ db.broken /\ Asks(Asked, StoreTypes) =>
        /\ lookup_records(db, QuestionName(Asked)) = << >>
        /\ StepsOn(exchange.steps, "store") # {}
        /\ exchange.kind \in NxdomainKinds \cup {"relay"}
        /\ exchange.outcome \in {"ok", "hang"}
        /\ exchange.outcome = "hang" => exchange.kind = "relay"
        /\ exchange.outcome = "ok" =>
               /\ Answered
               /\ exchange.kind \in NxdomainKinds => Rcode(Message) = 3

C21_Witness ==
    /\ Served /\ db.broken /\ Asks(Asked, StoreTypes)
    /\ Answered /\ exchange.kind = "nxdomain"
    /\ Rcode(Message) = 3 /\ AAbit(Message)

\* zone is name itself or name ends with a dot followed by zone
LabelSuffix(zone, name) ==
    \/ zone = name
    \/ /\ Len(zone) < Len(name)
       /\ SubSeq(name, Len(name) - Len(zone), Len(name)) = << Dot >> \o zone

\* the zones of the list whose name is a label-aligned suffix of name
Parents(name, zones) ==
    { zones[i] : i \in { k \in 1..Len(zones) : LabelSuffix(zones[k].name, name) } }

\* C22: find_closest_parent_zone returns the zone of the list whose name is the
\* longest label-aligned suffix of the name, whatever the order of the list,
\* and none exactly when no zone name is such a suffix.
C22_ClosestZone ==
    codec.op = "closest" =>
        \E name \in {codec.input[1]}, zones \in {codec.input[2]} :
            IF Parents(name, zones) = {} THEN codec.output = None
            ELSE /\ codec.output.tag = "Some"
                 /\ codec.output.val \in Parents(name, zones)
                 /\ \A z \in Parents(name, zones) :
                        Len(z.name) <= Len(codec.output.val.name)

\* the longest suffix is found behind a shorter one that comes first in the list
C22_Witness ==
    /\ codec.op = "closest"
    /\ Len(codec.input[2]) = 3
    /\ LabelSuffix(codec.input[2][1].name, codec.input[1])
    /\ codec.output.tag = "Some"
    /\ codec.output.val = codec.input[2][3]
    /\ Len(codec.input[2][1].name) < Len(codec.output.val.name)

\* the resource records of m from pos to the end of m: owner octets, type, TTL
\* and RDATA of each; a record that does not fit ends the list with type 0
RECURSIVE ResourceRecords(_, _)
ResourceRecords(m, pos) ==
    IF pos >= Len(m) THEN << >>
    ELSE LET p == AfterOwner(m, pos) IN
         IF p < 0 \/ p + 10 > Len(m) \/ p + 10 + U16At(m, p + 8) > Len(m)
         THEN << [owner |-> << >>, type |-> 0, ttl |-> << >>, rdata |-> << >>] >>
         ELSE << [owner |-> Slice(m, pos, p), type |-> U16At(m, p),
                  ttl |-> Slice(m, p + 4, p + 8),
                  rdata |-> Slice(m, p + 10, p + 10 + U16At(m, p + 8))] >>
              \o ResourceRecords(m, p + 10 + U16At(m, p + 8))

\* the records of m behind its question, the OPT record left out
Sections(m) ==
    SelectSeq(ResourceRecords(m, QuestionEnd(m)), LAMBDA r : r.type # 41)

ANCOUNT(m) == U16At(m, 6)

NSCOUNT(m) == U16At(m, 8)

ARCOUNT(m) == U16At(m, 10)

\* the NS rows the store holds for the name m asks about
StoredNs(m) ==
    SelectSeq(lookup_records(db, QuestionName(m)), LAMBDA r : r.record_type = "NS")

\* the wire format of a dotted name
WireOf(name) == Wire(Split(trim_end_dots(name), Dot))

\* C23: the response to an NS query on a name with k >= 1 NS records in the
\* store has ANCOUNT = k, NSCOUNT = 0 and one answer record per stored NS
\* record, each owned by the pointer 0xC0 0x0C with the encoded NS name as RDATA.
C23_EveryNs ==
    Served /\ Asks(Asked, {2}) /\ Len(StoredNs(Asked)) >= 1 =>
        /\ Answered
        /\ Len(Message) >= QuestionEnd(Asked)
        /\ ANCOUNT(Message) = Len(StoredNs(Asked))
        /\ NSCOUNT(Message) = 0
        /\ Len(Sections(Message)) = Len(StoredNs(Asked))
        /\ \A i \in 1..Len(StoredNs(Asked)) :
              /\ Sections(Message)[i].owner = << 192, 12 >>
              /\ Sections(Message)[i].type = 2
              /\ Sections(Message)[i].rdata = WireOf(StoredNs(Asked)[i].value)

C23_Witness ==
    /\ Served /\ Asks(Asked, {2}) /\ Len(StoredNs(Asked)) = 2
    /\ Answered /\ exchange.kind = "ns" /\ EndsWithOpt(Asked)
    /\ ANCOUNT(Message) = 2
    /\ Sections(Message)[2].rdata = << 3, 110, 115, 50, 1, 120, 1, 121, 0 >>

\* the exchange answered an A, AAAA, MX, TXT, CNAME, PTR or SOA query with a
\* record of the cache or of the store
PositiveAnswer ==
    /\ Served /\ Answered /\ Asks(Asked, StoreTypes)
    /\ exchange.kind \in {"cached", "address", "soa", "generic"}

\* C24: a positive A, MX, TXT, CNAME, PTR or SOA answer has ANCOUNT = 1; when the
\* server is configured authoritative it has NSCOUNT = 2 and the two configured
\* NS records follow the answer as authority records owned by the pointer to
\* the QNAME; otherwise it has NSCOUNT = 0 and no authority record.
C24_AnswerCounts ==
    PositiveAnswer =>
        /\ ANCOUNT(Message) = 1
        /\ NSCOUNT(Message) = (IF config.authoritative THEN 2 ELSE 0)
        /\ Len(Sections(Message)) = 1 + NSCOUNT(Message)
        /\ \A i \in 1..NSCOUNT(Message) :
              /\ Sections(Message)[1 + i].owner = << 192, 12 >>
              /\ Sections(Message)[1 + i].type = 2
              /\ Sections(Message)[1 + i].rdata = WireOf(config.ns_records[i])

\* C25: a response built by the server itself (a positive answer, an NXDOMAIN,
\* a NOTIMP) to a request that is not cut short has ARCOUNT = 1 if the request
\* carried an OPT record and ARCOUNT = 0 otherwise.
C25_Arcount ==
    Served /\ Local /\ Asked \notin Truncated =>
        ARCOUNT(Message) = (IF EndsWithOpt(Asked) THEN 1 ELSE 0)

\* the zone that covers the name m asks about, if any
CoveringZone(m) ==
    find_closest_parent_zone(QuestionName(m), get_authoritative_zones(db, config))

\* the SOA record (none or one) and the NS records of the zone covering m
ZoneRecordCount(m) ==
    IF CoveringZone(m).tag # "Some" THEN 0
    ELSE (IF CoveringZone(m).val.soa_record.tag = "Some" THEN 1 ELSE 0)
         + Len(CoveringZone(m).val.ns_records)

\* C26: an NXDOMAIN response has ANCOUNT = 0 and NSCOUNT equal to the number of
\* SOA and NS records of the zone that covers the QNAME, 0 when no zone does.
C26_NxdomainCounts ==
    Served /\ Answered /\ exchange.kind \in NxdomainKinds /\ Asked \notin Truncated =>
        /\ ANCOUNT(Message) = 0
        /\ NSCOUNT(Message) = ZoneRecordCount(Asked)

\* the records configured for the type m asks about: DNSKEY or DS
Configured(m) ==
    IF extract_query_type(m).val = 48 THEN config.dnskey_records ELSE config.ds_records

\* C27: a DNSKEY or DS query is answered without cache probe, store lookup or
\* upstream contact, whatever its name: with one answer record of the type
\* asked for and TTL 3600 when a record of that type is configured, with
\* NXDOMAIN when none is.
C27_DnssecFirst ==
    Served /\ Asks(Asked, {43, 48}) =>
        /\ StepsOn(exchange.steps, "cache") = {}
        /\ \A i \in 1..Len(exchange.steps) : exchange.steps[i] # << "store", "lookup" >>
        /\ Contacted(exchange.steps) = {}
        /\ Answered
        /\ IF Len(Configured(Asked)) > 0
           THEN /\ Rcode(Message) = 0
                /\ ANCOUNT(Message) = 1
                /\ Len(Sections(Message)) = 1
                /\ Sections(Message)[1].type = extract_query_type(Asked).val
                /\ Sections(Message)[1].ttl = BE32(3600)
           ELSE Rcode(Message) = 3

(***************************************************************************)
(* Properties of the name conversions                                      *)
(***************************************************************************)
\* C12: encoding the dotted name that the question parser extracts from a valid
\* QNAME (labels of 1 to 63 octets and a closing zero octet, the root name
\* included) gives the octets of that QNAME again.
C12_RoundTrip == codec.op = "encoded" => codec.output = Some(codec.input)

\* the labels of a text that the encoder keeps: those of at most 63 octets
Kept(text) == SelectSeq(Split(text, Dot), LAMBDA l : Len(l) <= 63)

\* the text up to its last octet that is not a dot
Undotted(text) ==
    SubSeq(text, 1, IF \A i \in 1..Len(text) : text[i] = Dot THEN 0
                    ELSE CHOOSE n \in 1..Len(text) :
                            text[n] # Dot /\ \A i \in (n + 1)..Len(text) : text[i] = Dot)

\* C37 as stated: the encoding of a name text is, for the text less one
\* trailing dot, every label of at most 63 octets behind its length, in order,
\* the longer labels left out, and one closing zero octet.
C37_OneDot ==
    codec.op = "text" => codec.output = Some(Wire(Kept(trim_one_dot(codec.input))))

\* C37 amended: the encoding of a name text is, for the text less all its
\* trailing dots, every label of at most 63 octets behind its length, in
\* order, the longer labels left out, and one closing zero octet.
C37_EveryDot ==
    codec.op = "text" => codec.output = Some(Wire(Kept(Undotted(codec.input))))

\* a text with a label too long and two trailing dots has been encoded
C37_Witness ==
    /\ codec.op = "text"
    /\ codec.input = LabelOf(LongestLabel + 1) \o << Dot, Dot >>
    /\ codec.output = Some(<< 0 >>)

\* the records m holds behind its question, the OPT record included
Emitted(m) == ResourceRecords(m, QuestionEnd(m))

\* the A rows the store holds for the name m asks about
StoredA(m) ==
    SelectSeq(lookup_records(db, QuestionName(m)), LAMBDA r : r.record_type = "A")

\* the text is four decimal octets separated by dots
DottedQuad(ip) ==
    /\ Len(Split(ip, Dot)) = 4
    /\ \A i \in 1..4 : ParseUint(Split(ip, Dot)[i], 255).tag = "Some"

\* C33: an A query for a name for which the store holds a well-formed A record
\* is answered with RCODE 0 and an A record of that address, whatever queries
\* were handled before it.
C33_NoHistory ==
    Served /\ Asks(Asked, {1}) /\ Len(StoredA(Asked)) >= 1
           /\ DottedQuad(StoredA(Asked)[1].value) =>
        /\ Answered
        /\ Rcode(Message) = 0
        /\ Len(Emitted(Message)) >= 1
        /\ Emitted(Message)[1].type = 1
        /\ Emitted(Message)[1].rdata = ipv4_octets(StoredA(Asked)[1].value)

\* C32: in a response built by the server itself to a request that is not cut
\* short, the records behind the question are whole, ARCOUNT is the number of
\* OPT records among them and ANCOUNT + NSCOUNT the number of the others: the
\* three counts are the numbers of records of the three sections.
C32_CountsMatch ==
    Served /\ Local /\ Asked \notin Truncated =>
        /\ \A i \in 1..Len(Emitted(Message)) : Emitted(Message)[i].type # 0
        /\ ARCOUNT(Message) = Len(Emitted(Message)) - Len(Sections(Message))
        /\ ANCOUNT(Message) + NSCOUNT(Message) = Len(Sections(Message))

\* what the upstreams may do with the query m
Behaviours(m) == IF Len(m) >= 12 THEN Upstreams(m) ELSE {Unreachable}

\* the TCP task t leaves the cache as the UDP task u does and writes, behind
\* the length, the message u sends, or nothing when u sends nothing
SameExchange(u, t) ==
    /\ t.cache = u.cache
    /\ t.sent.tag = u.sent.tag
    /\ u.sent.tag = "Some" =>
           t.sent.val = BE16(Len(u.sent.val) % 65536) \o u.sent.val

\* C34: on the query a client sends, with the configuration, cache, store and
\* clock of that moment and whatever the upstreams do, the UDP handler and the
\* TCP handler send the same message (the TCP one behind its two-octet
\* length) and leave the same cache.
C34_Transports ==
    [][exchange = NoExchange /\ exchange' # NoExchange /\ exchange'.transport = "udp" =>
           \A up \in Behaviours(exchange'.query) :
               SameExchange(Handle("udp", exchange'.query, up),
                            Handle("tcp", exchange'.query, up))]_vars

\* the task of the exchange is suspended for ever in the receive of a reply
\* that no upstream sends
Hangs == exchange.outcome = "hang"

\* C35: the task of a query with OPCODE 0, at least 12 octets and a QNAME that
\* parses ends and has sent one response, whatever the upstreams do: it is
\* never left waiting for an upstream that does not reply.
C35_TaskEnds ==
    Served /\ Asks(Asked, AllTypes) => ~Hangs /\ Answered

\* the step installs an entry for d or changes the one the cache holds
Installed(d) ==
    d \in DOMAIN CACHE' /\ (d \notin DOMAIN CACHE \/ CACHE'[d] # CACHE[d])

\* the step removes an entry that has not expired
Dropped(d) ==
    d \in DOMAIN CACHE /\ entry_valid(CACHE[d], now) /\ d \notin DOMAIN CACHE'

\* C36: handling a query that is not cut short installs or changes an entry
\* of the cache only when the query asks for A or AAAA and is answered with
\* the address of a record of the store, and then only the entry of the name
\* asked for; it removes no entry that has not expired.
C36_CacheFrame ==
    [][exchange = NoExchange /\ exchange' # NoExchange
           /\ exchange'.query \notin Truncated =>
           /\ \A d \in DOMAIN CACHE : ~Dropped(d)
           /\ \A d \in DOMAIN CACHE' :
                  Installed(d) =>
                     /\ Asks(exchange'.query, {1, 28})
                     /\ exchange'.kind = "address"
                     /\ exchange'.outcome = "ok"
                     /\ d = QuestionName(exchange'.query)]_vars

(***************************************************************************)
(* Properties of the transport loops and of the tasks in flight            *)
(***************************************************************************)
\* the handler of the running build on a query and a cache
HandleWith(transport, query, cache) ==
    CASE build = "lib" /\ transport = "udp" ->
             handle_udp_query(query, config, db, Unreachable, cache, now)
      [] build = "lib" /\ transport = "tcp" ->
             handle_tcp_connection(query, config, db, Unreachable, cache, now)
      [] build = "bin" /\ transport = "udp" ->
             main_handle_udp_query(query, config, db, Unreachable, cache, now)
      [] OTHER -> main_handle_tcp_connection(query, config, db, Unreachable, cache, now)

\* what the handler sends for a query, before and after the cache holds the
\* entries it holds now
Responses(transport, query) ==
    { HandleWith(transport, query, cache).sent : cache \in {EmptyCache, CACHE} }

InFlight(t) == net.tasks[t].pc # "free"

\* C28: on UDP a response goes to the source of the datagram it answers and is
\* the response of the handler to the octets of that datagram, whatever has
\* arrived in the receive buffer since: for the response a task is about to
\* send and for the response the last step has sent
C28_OwnQuery ==
    /\ \A t \in Slots :
          net.tasks[t].transport = "udp" /\ net.tasks[t].pc \in {"send", "end"} =>
             /\ net.tasks[t].src = net.tasks[t].from
             /\ net.tasks[t].h.sent \in Responses("udp", net.tasks[t].arrived)
    /\ net.last.transport = "udp" =>
          /\ net.last.to = net.last.from
          /\ Some(net.last.bytes) \in Responses("udp", net.last.arrived)

\* a task is about to send its answer while the receive buffer holds the
\* datagram of another task in flight, from another source
C28_Witness ==
    \E t, u \in Slots :
       /\ net.tasks[t].transport = "udp" /\ net.tasks[t].pc = "send"
       /\ Len(net.tasks[t].h.sent.val) > 12
       /\ net.tasks[u].transport = "udp" /\ InFlight(u)
       /\ net.tasks[u].src # net.tasks[t].src
       /\ SubSeq(net.buf, 1, net.tasks[u].amt) = net.tasks[u].arrived
       /\ SubSeq(net.buf, 1, net.tasks[t].amt) # net.tasks[t].arrived

\* C29: a task holds the mutex of the cache only while it is in an operation
\* of the cache: a handler task never while it waits to start, calls the
\* store, exchanges with an upstream or sends, the sweeper never while it
\* waits for its interval
C29_LockOnlyInCache ==
    /\ holder \in Slots \cup {"sweeper", NoHolder}
    /\ \A t \in Slots : holder = t => net.tasks[t].pc = "cache"
    /\ holder = "sweeper" => net.sweeper = "cleanup"

\* a task calls the store after an operation of the cache, while the other
\* task holds the mutex
C29_Witness ==
    \E t, u \in Slots :
       /\ net.tasks[t].pc \in {"store", "upstream", "send"}
       /\ net.tasks[t].k > 1 /\ net.tasks[t].h.steps[1][1] = "cache"
       /\ holder = u /\ u # t

QuadOctets(ip) == [i \in 1..4 |-> ParseUint(Split(ip, Dot)[i], 255).val]

\* C38: the A answer encoder emits a response exactly when the address text is
\* four decimal octets separated by dots, with those four octets as the RDATA
\* of its A record, and gives an error for every other text.
C38_QuadsOnly ==
    codec.op = "A" =>
        IF DottedQuad(codec.input)
        THEN /\ codec.output.tag = "Ok"
             /\ Emitted(codec.output.val)[1].type = 1
             /\ Emitted(codec.output.val)[1].rdata = QuadOctets(codec.input)
        ELSE codec.output.tag = "Err"

\* text is value without some double quotes at its two ends
Unquoted(value, text) ==
    \E i, j \in 0..Len(value) :
        /\ i + j <= Len(value)
        /\ text = SubSeq(value, i + 1, Len(value) - j)
        /\ \A k \in (1..i) \cup ((Len(value) - j + 1)..Len(value)) : value[k] = Quote

\* the octets of the response m from the RDLENGTH of its first record on
FromRdlength(m) == Slice(m, QuestionEnd(m) + 10, Len(m))

\* C39: the TXT answer carries one character string: its length octet is the
\* length of the value without its surrounding double quotes, RDLENGTH is that
\* length plus one, and that many octets of text follow the length octet.
C39_OneString ==
    codec.op = "TXT" =>
        /\ codec.output.tag = "Ok"
        /\ \E n \in 0..Len(codec.input) :
              /\ U16At(FromRdlength(codec.output.val), 0) = n + 1
              /\ B(FromRdlength(codec.output.val), 2) = n
              /\ Len(FromRdlength(codec.output.val)) >= 3 + n
              /\ Unquoted(codec.input, Slice(FromRdlength(codec.output.val), 3, 3 + n))

(***************************************************************************)
(* Properties of the sweeper                                               *)
(***************************************************************************)
Expired(d) == d \in DOMAIN CACHE /\ ~entry_valid(CACHE[d], now)

SweepBegins == net.sweeper = "idle" /\ net'.sweeper = "cleanup"

\* C31: while the server runs a sweep begins at the start and then once per
\* period of 300 seconds, never before its instant; an entry that has expired
\* leaves the map, with no read of it, as long as a sweep is still to come in
\* the time looked at and main has not shut down; and once main has received
\* the shutdown signal no sweep begins
C31_Sweeper ==
    /\ \A d \in CacheDomains :
          (Expired(d) /\ ~net.down /\ net.due \in Instants)
             ~> (~Expired(d) \/ net.down)
    /\ [][SweepBegins =>
             /\ ~net.down
             /\ now >= net.due
             /\ net.due % (300 * TicksPerSec) = 0
             /\ net'.due = net.due + 300 * TicksPerSec]_vars
    /\ [][net.down => net'.down]_vars

\* an entry stored in the first period has expired unread and the second
\* sweep has run: the entry has left the map
C31_Witness ==
    /\ net.due = 2 * 300 * TicksPerSec
    /\ net.sweeper = "idle"
    /\ ~net.down
    /\ \E d \in DOMAIN lastSet :
          /\ lastSet[d].inserted < 300 * TicksPerSec
          /\ d \notin DOMAIN CACHE

====
